---- MODULE Spec2Model ----
(***************************************************************************)
(* State-machine model of the Ralph loop agent: RalphLoopAgent.loop, the   *)
(* stop conditions of ralph-stop-condition.ts and the part of              *)
(* RalphContextManager that loop() drives.                                 *)
(*                                                                         *)
(* Token counts: an unknown (undefined) count is the value undefined.      *)
(* Money: rates are held in cents per million tokens and costs in units of *)
(* 10^-8 USD, so that every pricing of the table is an integer.            *)
(***************************************************************************)
EXTENDS Integers, Sequences, FiniteSets, TLC

\* ---------------------------------------------------------------------
\* Bounds of the model
\* ---------------------------------------------------------------------
\* largest count given to iterationCountIs in a configuration
MaxN == 3
\* cap on the iteration counter for runs whose stop conditions never fire
MaxIter == 11

\* ---------------------------------------------------------------------
\* Program constants
\* ---------------------------------------------------------------------
undefined == -1
DefaultIterations == 10
DefaultMaxContextTokens == 150000
DefaultChangeLogBudget == 5000
DefaultRecentIterationsToKeep == 2
MessagesPerIteration == 10
FeedbackPrefixLen == 10
FeedbackSummaryLen == 30
DetailsSliceLen == 200
MILLION == 1000000

Min(a, b) == IF a <= b THEN a ELSE b
Max(a, b) == IF a >= b THEN a ELSE b

\* ---------------------------------------------------------------------
\* ralph-stop-condition.ts
\* ---------------------------------------------------------------------
NoRates == [kind |-> "none", model |-> "", a |-> 0, b |-> 0]
ExplicitRates(a, b) == [kind |-> "rates", model |-> "", a |-> a, b |-> b]
ExplicitModel(m) == [kind |-> "model", model |-> m, a |-> 0, b |-> 0]

\* MODEL_PRICING, in cents per million tokens
MODEL_PRICING ==
  [m \in { "anthropic/claude-opus-4.5", "anthropic/claude-sonnet-4",
           "anthropic/claude-haiku", "openai/gpt-4o", "openai/gpt-4o-mini",
           "openai/gpt-4-turbo", "openai/o1", "openai/o1-mini",
           "openai/o3-mini", "google/gemini-2.5-pro",
           "google/gemini-2.5-flash", "google/gemini-2.0-flash",
           "xai/grok-3", "xai/grok-3-mini", "deepseek/deepseek-chat",
           "deepseek/deepseek-reasoner" } |->
    CASE m = "anthropic/claude-opus-4.5"   -> [a |-> 500,  b |-> 2500]
      [] m = "anthropic/claude-sonnet-4"   -> [a |-> 300,  b |-> 1500]
      [] m = "anthropic/claude-haiku"      -> [a |-> 25,   b |-> 125]
      [] m = "openai/gpt-4o"               -> [a |-> 250,  b |-> 1000]
      [] m = "openai/gpt-4o-mini"          -> [a |-> 15,   b |-> 60]
      [] m = "openai/gpt-4-turbo"          -> [a |-> 1000, b |-> 3000]
      [] m = "openai/o1"                   -> [a |-> 1500, b |-> 6000]
      [] m = "openai/o1-mini"              -> [a |-> 110,  b |-> 440]
      [] m = "openai/o3-mini"              -> [a |-> 110,  b |-> 440]
      [] m = "google/gemini-2.5-pro"       -> [a |-> 125,  b |-> 1000]
      [] m = "google/gemini-2.5-flash"     -> [a |-> 15,   b |-> 60]
      [] m = "google/gemini-2.0-flash"     -> [a |-> 10,   b |-> 40]
      [] m = "xai/grok-3"                  -> [a |-> 300,  b |-> 1500]
      [] m = "xai/grok-3-mini"             -> [a |-> 30,   b |-> 50]
      [] m = "deepseek/deepseek-chat"      -> [a |-> 14,   b |-> 28]
      [] m = "deepseek/deepseek-reasoner"  -> [a |-> 55,   b |-> 219]]

\* getModelPricing: the pricing of the model, found = FALSE for undefined
getModelPricing(model) ==
  IF model \in DOMAIN MODEL_PRICING
    THEN [found |-> TRUE, a |-> MODEL_PRICING[model].a, b |-> MODEL_PRICING[model].b]
    ELSE [found |-> FALSE, a |-> 0, b |-> 0]

\* a ?? 0
OrZero(a) == IF a = undefined THEN 0 ELSE a

\* mutant of addTokenCounts: an unknown first operand makes the sum unknown
addTokenCounts_LeftUnknownWins(a, b) ==
  IF a = undefined THEN undefined ELSE a + OrZero(b)

addTokenCounts(a, b) ==
  IF a = undefined /\ b = undefined THEN undefined ELSE OrZero(a) + OrZero(b)

addLanguageModelUsage(usage1, usage2) ==
  [ inputTokens      |-> addTokenCounts(usage1.inputTokens, usage2.inputTokens),
    noCacheTokens    |-> addTokenCounts(usage1.noCacheTokens, usage2.noCacheTokens),
    cacheReadTokens  |-> addTokenCounts(usage1.cacheReadTokens, usage2.cacheReadTokens),
    cacheWriteTokens |-> addTokenCounts(usage1.cacheWriteTokens, usage2.cacheWriteTokens),
    outputTokens     |-> addTokenCounts(usage1.outputTokens, usage2.outputTokens),
    textTokens       |-> addTokenCounts(usage1.textTokens, usage2.textTokens),
    reasoningTokens  |-> addTokenCounts(usage1.reasoningTokens, usage2.reasoningTokens),
    totalTokens      |-> addTokenCounts(usage1.totalTokens, usage2.totalTokens) ]

\* calculateCost, in units of 10^-8 USD (tokens * cents per million tokens)
calculateCost(usage, rates) ==
  OrZero(usage.inputTokens) * rates.a + OrZero(usage.outputTokens) * rates.b

iterationCountIs(count) == [type |-> "iterationCountIs", n |-> count, ratesOrModel |-> NoRates]
tokenCountIs(maxTokens) == [type |-> "tokenCountIs", n |-> maxTokens, ratesOrModel |-> NoRates]
inputTokenCountIs(maxTokens) == [type |-> "inputTokenCountIs", n |-> maxTokens, ratesOrModel |-> NoRates]
outputTokenCountIs(maxTokens) == [type |-> "outputTokenCountIs", n |-> maxTokens, ratesOrModel |-> NoRates]
\* costIs(maxCostDollars, ratesOrModel); maxCostCents is the limit in cents
costIs(maxCostCents, ratesOrModel) == [type |-> "costIs", n |-> maxCostCents, ratesOrModel |-> ratesOrModel]

\* mutant of costModelToUse: the context's model wins over an explicit model
costModelToUse_ContextFirst(cond, context) ==
  IF context.model \in DOMAIN MODEL_PRICING THEN context.model
  ELSE IF cond.ratesOrModel.kind = "model" THEN cond.ratesOrModel.model ELSE context.model

\* the model whose pricing costIs looks up when no explicit rates are given
costModelToUse(cond, context) ==
  IF cond.ratesOrModel.kind = "model" THEN cond.ratesOrModel.model ELSE context.model

\* the rates costIs uses (found = FALSE: the lookup failed and costIs throws)
costRates(cond, context) ==
  IF cond.ratesOrModel.kind = "rates"
    THEN [found |-> TRUE, a |-> cond.ratesOrModel.a, b |-> cond.ratesOrModel.b]
    ELSE getModelPricing(costModelToUse(cond, context))

\* mutant of conditionThrows: a failed pricing lookup is not an error
conditionThrows_Never(cond, context) == FALSE

\* does calling the condition throw?
conditionThrows(cond, context) ==
  cond.type = "costIs" /\ ~costRates(cond, context).found

\* mutant of conditionResult: iterationCountIs compares with > instead of >=
conditionResult_StrictCount(cond, context) ==
  CASE cond.type = "iterationCountIs"   -> context.iteration > cond.n
    [] cond.type = "tokenCountIs"       -> OrZero(context.totalUsage.totalTokens) >= cond.n
    [] cond.type = "inputTokenCountIs"  -> OrZero(context.totalUsage.inputTokens) >= cond.n
    [] cond.type = "outputTokenCountIs" -> OrZero(context.totalUsage.outputTokens) >= cond.n
    [] cond.type = "costIs" ->
         calculateCost(context.totalUsage, costRates(cond, context)) >= cond.n * MILLION

\* the boolean a condition returns (when it does not throw)
conditionResult(cond, context) ==
  CASE cond.type = "iterationCountIs"   -> context.iteration >= cond.n
    [] cond.type = "tokenCountIs"       -> OrZero(context.totalUsage.totalTokens) >= cond.n
    [] cond.type = "inputTokenCountIs"  -> OrZero(context.totalUsage.inputTokens) >= cond.n
    [] cond.type = "outputTokenCountIs" -> OrZero(context.totalUsage.outputTokens) >= cond.n
    [] cond.type = "costIs" ->
         calculateCost(context.totalUsage, costRates(cond, context)) >= cond.n * MILLION

\* results of stopConditions.map(condition => condition(context))
conditionResults(stopConditions, context) ==
  [i \in DOMAIN stopConditions |-> conditionResult(stopConditions[i], context)]

\* mutant of isRalphStopConditionMet: results.every instead of results.some
isRalphStopConditionMet_Every(stopConditions, context) ==
  IF \E i \in DOMAIN stopConditions : conditionThrows(stopConditions[i], context)
    THEN "throw"
    ELSE IF \A i \in DOMAIN stopConditions :
              conditionResults(stopConditions, context)[i]
           THEN "true" ELSE "false"

\* isRalphStopConditionMet: "throw" when a condition throws (Promise.all
\* rejects), else results.some(result => result)
isRalphStopConditionMet(stopConditions, context) ==
  IF \E i \in DOMAIN stopConditions : conditionThrows(stopConditions[i], context)
    THEN "throw"
    ELSE IF \E i \in DOMAIN stopConditions :
              conditionResults(stopConditions, context)[i]
           THEN "true" ELSE "false"

\* ---------------------------------------------------------------------
\* ralph-context-manager.ts: token estimation
\* ---------------------------------------------------------------------
\* estimateTokens(text) = Math.ceil(text.length / 3.5), on the text's length
estimateTokens(len) == (2 * len + 6) \div 7

RECURSIVE SumTokens(_)
\* currentMessages.reduce((sum, m) => sum + estimateMessageTokens(m), 0);
\* a message carries its estimateMessageTokens value in its tokens field
SumTokens(msgs) ==
  IF msgs = <<>> THEN 0 ELSE Head(msgs).tokens + SumTokens(Tail(msgs))

RECURSIVE changeLogTokens(_)
\* reduce over estimateTokens(e.summary) + estimateTokens(e.details ?? '')
changeLogTokens(log) ==
  IF log = <<>> THEN 0
  ELSE estimateTokens(Head(log).summaryLen) + estimateTokens(Head(log).detailsLen)
       + changeLogTokens(Tail(log))

\* ---------------------------------------------------------------------
\* Messages
\* ---------------------------------------------------------------------
ContinuationText == "Continue working on the task. The previous attempt was not complete."

Message(role, kind, iter, idx, lit, r, tokens) ==
  [role |-> role, kind |-> kind, iter |-> iter, idx |-> idx,
   text |-> [lit |-> lit, r |-> r], tokens |-> tokens, injections |-> <<>>]

\* { role: 'system', content: instructions }
InstructionsMessage == Message("system", "instructions", 0, 0, "instructions", 0, 0)
\* { role: 'user', content: [{ type: 'text', text: prompt }] }
initialUserMessage == Message("user", "prompt", 0, 0, "prompt", 0, 0)
\* the continuation prompt pushed when iteration > 1
ContinuationMessage(iter) == Message("user", "continuation", iter, 0, ContinuationText, 0, 0)
\* { role: 'user', content: [{ type: 'text', text: `Feedback: ${reason}` }] }
FeedbackMessage(iter, rsn) ==
  Message("user", "feedback", iter, 0, "Feedback: ", rsn.id,
          estimateTokens(FeedbackPrefixLen + rsn.len))
\* the j-th message of result.response.messages of iteration iter
ResponseMessage(iter, j, tokens) ==
  Message("assistant", "response", iter, j, "response", j, tokens)

\* ---------------------------------------------------------------------
\* Settings a RalphLoopAgent is constructed with, and its collaborators
\* ---------------------------------------------------------------------
\* usage reported by one step call, as in the tests' createMockUsage scaled
\* so that one call costs one cent under the pricing of KnownModel
KnownUsage ==
  [inputTokens |-> 2000, noCacheTokens |-> 2000, cacheReadTokens |-> undefined,
   cacheWriteTokens |-> undefined, outputTokens |-> 500, textTokens |-> 500,
   reasoningTokens |-> undefined, totalTokens |-> 2500]
\* a provider that reports no usage at all
UnknownUsage ==
  [inputTokens |-> undefined, noCacheTokens |-> undefined, cacheReadTokens |-> undefined,
   cacheWriteTokens |-> undefined, outputTokens |-> undefined, textTokens |-> undefined,
   reasoningTokens |-> undefined, totalTokens |-> undefined]

KnownModel == "openai/gpt-4o"
UnknownModel == "unknown"

\* stopWhen: absent, a single condition, or an array of conditions
StopWhenAbsent == [given |-> FALSE, isArray |-> FALSE, conds |-> <<>>]
StopWhenOne(c) == [given |-> TRUE, isArray |-> FALSE, conds |-> <<c>>]
StopWhenArray(cs) == [given |-> TRUE, isArray |-> TRUE, conds |-> cs]

StopWhenChoices ==
  {StopWhenAbsent}
  \cup {StopWhenOne(iterationCountIs(n)) : n \in 0..MaxN}
  \cup {StopWhenOne(tokenCountIs(0)),
        StopWhenArray(<<iterationCountIs(MaxN), tokenCountIs(2 * KnownUsage.totalTokens)>>),
        StopWhenArray(<<outputTokenCountIs(MILLION), iterationCountIs(2)>>),
        StopWhenArray(<<costIs(2, NoRates), iterationCountIs(MaxN)>>),
        StopWhenArray(<<costIs(2, ExplicitRates(300, 1500)), iterationCountIs(MaxN)>>),
        StopWhenArray(<<>>)}

\* verifyCompletion: absent, or a function of the iteration that reports
\* complete from iteration firstComplete on (0: never) and gives a reason
\* on the iterations reasonMode selects
NoVerify == [given |-> FALSE, firstComplete |-> 0, reasonMode |-> "none"]
VerifyChoices ==
  {NoVerify}
  \cup [given : {TRUE}, firstComplete : 0..MaxN, reasonMode : {"none", "all", "odd"}]

NoReason == [id |-> 0, len |-> 0]
\* the reason text of iteration i: "try again"-sized on odd iterations,
\* longer than the 200 characters the change log keeps on even ones
ReasonOf(i) == [id |-> i, len |-> IF i % 2 = 1 THEN 9 ELSE 250]

\* the verdict settings.verifyCompletion returns for an iteration
verifyCompletion(v, iter) ==
  [iteration |-> iter,
   complete  |-> v.firstComplete # 0 /\ iter >= v.firstComplete,
   reason    |-> IF v.reasonMode = "all" \/ (v.reasonMode = "odd" /\ iter % 2 = 1)
                   THEN ReasonOf(iter) ELSE NoReason]

\* contextManagement: absent or a RalphContextConfig (defaults applied as
\* in the RalphContextManager constructor)
NoContext ==
  [given |-> FALSE, maxContextTokens |-> DefaultMaxContextTokens,
   changeLogBudget |-> DefaultChangeLogBudget,
   recentIterationsToKeep |-> DefaultRecentIterationsToKeep,
   enableSummarization |-> TRUE, summarizerFails |-> FALSE]
ContextConfig(maxTok, clBudget, keep, enable, fails) ==
  [given |-> TRUE, maxContextTokens |-> maxTok, changeLogBudget |-> clBudget,
   recentIterationsToKeep |-> keep, enableSummarization |-> enable,
   summarizerFails |-> fails]
\* a context window small enough for the compression trigger to be reached
SmallContextTokens == 10
SmallChangeLogBudget == 70

ContextChoices ==
  { NoContext,
    ContextConfig(DefaultMaxContextTokens, DefaultChangeLogBudget,
                  DefaultRecentIterationsToKeep, TRUE, FALSE),
    ContextConfig(SmallContextTokens, SmallChangeLogBudget, 1, TRUE, FALSE),
    ContextConfig(SmallContextTokens, DefaultChangeLogBudget, 0, TRUE, TRUE),
    ContextConfig(SmallContextTokens, DefaultChangeLogBudget, 1, FALSE, FALSE) }

\* the step collaborator: how many response messages a call produces, the
\* estimated tokens of each, the usage it reports, and how many files its
\* context-aware tools write during the call
StepChoices ==
  { [respCount |-> 1, respTokens |-> 4, usage |-> KnownUsage, writes |-> 0],
    [respCount |-> 4, respTokens |-> 4, usage |-> KnownUsage, writes |-> 0],
    [respCount |-> 1, respTokens |-> 4, usage |-> UnknownUsage, writes |-> 0],
    [respCount |-> 1, respTokens |-> 4, usage |-> KnownUsage, writes |-> 1] }

SettingsChoices ==
  [ stopWhen : StopWhenChoices, verify : VerifyChoices,
    contextManagement : ContextChoices, step : StepChoices,
    instructions : BOOLEAN, model : {KnownModel, UnknownModel} ]

\* ---------------------------------------------------------------------
\* State
\* ---------------------------------------------------------------------
VARIABLES
  settings,           \* the RalphLoopAgentSettings of the agent
  pc,                 \* position of loop(): see the actions
  aborted,            \* abortSignal.aborted
  iteration,          \* let iteration
  allResults,         \* const allResults
  currentMessages,    \* let currentMessages
  totalUsage,         \* let totalUsage
  completionReason,   \* let completionReason
  reason,             \* let reason
  systemMessages,     \* const systemMessages (its message objects are shared)
  messagesToSend,     \* the message list of the latest iteration
  summarized,         \* prepared.summarized of the latest iteration
  changeLog,          \* contextManager.changeLog
  iterationSummaries, \* contextManager.iterationSummaries
  currentIteration,   \* contextManager.currentIteration
  verdicts,           \* the verdicts verifyCompletion returned, in call order
  events,             \* the external calls loop() made, in call order
  returned,           \* <<the RalphLoopAgentResult>> once loop() resolved
  error,              \* the error loop() rejected with ("" when none)
  probe,              \* a stop condition evaluated on its own, with its outcome
  usageProbe,         \* usage records added on their own, with the sums
  judge,              \* a judge response parsed on its own, with the result
  trackedFiles,       \* contextManager.trackedFiles, in insertion order
  now,                \* Date.now()
  fileOps,            \* the latest calls on the context manager, newest last
  appended,           \* every entry pushed onto the change log, in push order
  prepareProbe,       \* prepareMessagesForIteration called on its own, with its result
  awaitProbe,         \* loop() followed through its awaited calls, with the calls in flight
  runs                \* the loop() calls made on one agent, each with its position

vars ==
  << settings, pc, aborted, iteration, allResults, currentMessages, totalUsage,
     completionReason, reason, systemMessages, messagesToSend, summarized,
     changeLog, iterationSummaries, currentIteration, verdicts, events,
     returned, error, probe, usageProbe, judge, trackedFiles, now, fileOps, appended,
     prepareProbe, awaitProbe, runs >>

loopVars ==
  << iteration, allResults, currentMessages, totalUsage, completionReason, reason >>
contextVars == << changeLog, iterationSummaries, currentIteration >>
fileVars == << trackedFiles, now, fileOps, appended >>
\* what loop() neither reads nor writes
runVars == << awaitProbe, runs >>
pureVars == << probe, usageProbe, judge, fileVars, prepareProbe, runVars >>

\* createEmptyUsage()
createEmptyUsage ==
  [inputTokens |-> 0, noCacheTokens |-> undefined, cacheReadTokens |-> undefined,
   cacheWriteTokens |-> undefined, outputTokens |-> 0, textTokens |-> undefined,
   reasoningTokens |-> undefined, totalTokens |-> 0]

\* mutant of getStopConditions: no default when stopWhen is absent
getStopConditions_NoDefault(stopWhen) == stopWhen.conds

\* the stop-condition context of an iteration
stopContext(iter, results, usage, model) ==
  [iteration |-> iter, allResults |-> results, totalUsage |-> usage, model |-> model]

\* getStopConditions()
getStopConditions(stopWhen) ==
  IF ~stopWhen.given THEN <<iterationCountIs(DefaultIterations)>> ELSE stopWhen.conds

\* buildSystemMessages()
buildSystemMessages(instructions) ==
  IF instructions THEN <<InstructionsMessage>> ELSE <<>>

Event(call, iter) == [call |-> call, iteration |-> iter]

\* settings whose every component has an effect on the run
RelevantSettings(s) ==
  /\ (s.model = UnknownModel =>
        \E i \in DOMAIN s.stopWhen.conds : s.stopWhen.conds[i].type = "costIs")
  /\ (~s.instructions => s.contextManagement.given)
  /\ (s.step.writes > 0 =>
        /\ s.contextManagement.given /\ s.contextManagement.enableSummarization
        /\ s.contextManagement.recentIterationsToKeep > 0
        /\ s.instructions /\ s.model = KnownModel)

\* the locals of loop() as initialised at lines 191-212, the context manager
\* cleared
InitLocals ==
  /\ aborted = FALSE
  /\ iteration = 0
  /\ allResults = <<>>
  /\ currentMessages = <<>>
  /\ totalUsage = createEmptyUsage
  /\ completionReason = "max-iterations"
  /\ reason = NoReason
  /\ systemMessages = buildSystemMessages(settings.instructions)
  /\ messagesToSend = <<>>
  /\ summarized = FALSE
  /\ changeLog = <<>>
  /\ iterationSummaries = <<>>
  /\ currentIteration = 0
  /\ verdicts = <<>>
  /\ events = <<>>
  /\ returned = <<>>
  /\ error = ""

\* the outcome of calling a stop condition with a context
Evaluated(cond, context) ==
  [cond |-> cond, context |-> context,
   threw |-> conditionThrows(cond, context),
   result |-> IF conditionThrows(cond, context) THEN FALSE
              ELSE conditionResult(cond, context)]

NoProbe == Evaluated(iterationCountIs(0), stopContext(0, <<>>, createEmptyUsage, KnownModel))

\* nothing added, nothing parsed; new RalphContextManager(): no tracked files
NoUsageProbe == <<>>
NoJudge == <<>>
NoPrepareProbe == <<>>
\* no call of loop() is being followed call by call, no run is under way
NoAwaitProbe == <<>>
NoRun == <<>>
NoRuns == awaitProbe = NoAwaitProbe /\ runs = NoRun
NoFiles ==
  /\ trackedFiles = <<>>
  /\ now = 0
  /\ fileOps = <<>>
  /\ appended = <<>>

\* the state loop() starts in
Init ==
  /\ settings \in {s \in SettingsChoices : RelevantSettings(s)}
  /\ pc = "loop_top"
  /\ probe = NoProbe
  /\ usageProbe = NoUsageProbe
  /\ judge = NoJudge
  /\ NoFiles
  /\ prepareProbe = NoPrepareProbe
  /\ NoRuns
  /\ InitLocals

\* ---------------------------------------------------------------------
\* RalphContextManager, as driven by loop()
\* ---------------------------------------------------------------------
\* mutant of shouldCompress: a history at exactly 70% is left alone
shouldCompress_StrictlyAbove(cm, msgs, iter) ==
  /\ ~(iter <= cm.recentIterationsToKeep \/ ~cm.enableSummarization)
  /\ ~(SumTokens(msgs) * 10 <= cm.maxContextTokens * 7)

\* the test of prepareMessagesForIteration that decides to compress
shouldCompress(cm, msgs, iter) ==
  /\ ~(iter <= cm.recentIterationsToKeep \/ ~cm.enableSummarization)
  /\ ~(SumTokens(msgs) * 10 < cm.maxContextTokens * 7)

\* the IterationSummary summarizeIteration builds; the response messages
\* of the model carry no tool calls
IterationSummary(iter, fails) ==
  [iteration |-> iter, summary |-> IF fails THEN "fallback" ELSE "model",
   toolsUsed |-> {}, filesModified |-> {},
   estimatedTokens |-> IF fails THEN estimateTokens(47) ELSE estimateTokens(70)]

\* mutant of preparedSummaries: summarizes although there is nothing to summarize
preparedSummaries_Always(cm, msgs, iter, results, summaries) ==
  IF shouldCompress(cm, msgs, iter)
    THEN Append(summaries, IterationSummary(iter - 1, cm.summarizerFails))
    ELSE summaries

\* mutant of preparedSummaries: a failed summarization call leaves no summary
preparedSummaries_FailureSkips(cm, msgs, iter, results, summaries) ==
  IF shouldCompress(cm, msgs, iter) /\ results # <<>>
       /\ results[Len(results)].messages # <<>> /\ ~cm.summarizerFails
    THEN Append(summaries, IterationSummary(iter - 1, cm.summarizerFails))
    ELSE summaries

\* mutant of preparedSummaries: the new summary replaces the stored ones
preparedSummaries_KeepsLatest(cm, msgs, iter, results, summaries) ==
  IF shouldCompress(cm, msgs, iter) /\ results # <<>>
       /\ results[Len(results)].messages # <<>>
    THEN <<IterationSummary(iter - 1, cm.summarizerFails)>>
    ELSE summaries

\* iterationSummaries after prepareMessagesForIteration
preparedSummaries(cm, msgs, iter, results, summaries) ==
  IF shouldCompress(cm, msgs, iter) /\ results # <<>>
       /\ results[Len(results)].messages # <<>>
    THEN Append(summaries, IterationSummary(iter - 1, cm.summarizerFails))
    ELSE summaries

\* mutant of recentMessages: keeps the oldest messages instead of the newest
recentMessages_KeepOldest(cm, msgs) ==
  SubSeq(msgs, 1, Min(Len(msgs), cm.recentIterationsToKeep * MessagesPerIteration))

\* currentMessages.slice(recentStartIndex)
recentMessages(cm, msgs) ==
  SubSeq(msgs,
         Max(0, Len(msgs) - cm.recentIterationsToKeep * MessagesPerIteration) + 1,
         Len(msgs))

\* prepared.messages of prepareMessagesForIteration
preparedMessages(cm, msgs, iter) ==
  IF shouldCompress(cm, msgs, iter) THEN recentMessages(cm, msgs) ELSE msgs

\* the ChangeLogEntry loop() adds for verification feedback
FeedbackEntry(iter, rsn) ==
  [iteration |-> iter, type |-> "observation",
   summaryLen |-> FeedbackSummaryLen, detailsLen |-> Min(rsn.len, DetailsSliceLen),
   r |-> rsn.id]

\* mutant of ToolWriteEntry: stamped with the iteration to come
ToolWriteEntry_NextIteration(iter) ==
  [iteration |-> iter + 1, type |-> "action", summaryLen |-> 19, detailsLen |-> 14, r |-> 0]

\* the ChangeLogEntry trackFileWrite adds when a tool writes a file:
\* `Modified file: a.ts`, `Wrote 61 chars`
ToolWriteEntry(iter) ==
  [iteration |-> iter, type |-> "action", summaryLen |-> 19, detailsLen |-> 14, r |-> 0]

\* mutant of trimChangeLog: an `if` for the `while`, one entry shifted
trimChangeLog_ShiftOnce(log, budget) ==
  IF log # <<>> /\ changeLogTokens(log) > budget THEN Tail(log) ELSE log

RECURSIVE trimChangeLog(_, _)
\* trimChangeLog(): shift the oldest entries while over budget
trimChangeLog(log, budget) ==
  IF log # <<>> /\ changeLogTokens(log) > budget
    THEN trimChangeLog(Tail(log), budget) ELSE log

\* addChangeLogEntry(entry)
addChangeLogEntry(log, entry, budget) == trimChangeLog(Append(log, entry), budget)

\* buildContextInjection(): the block built from the summaries and the
\* change log; empty = TRUE stands for the empty string
buildContextInjection(summaries, log) ==
  [empty |-> summaries = <<>> /\ log = <<>>, summaries |-> summaries, changeLog |-> log]

\* ---------------------------------------------------------------------
\* RalphLoopAgent.loop
\* ---------------------------------------------------------------------
\* the GenerateTextResult of the step call of an iteration
StepResult(step, iter) ==
  [iteration |-> iter, text |-> iter, usage |-> step.usage,
   messages |-> [j \in 1..step.respCount |-> ResponseMessage(iter, j, step.respTokens)]]

\* the leading system message created when there are no instructions
InjectionMessage(inj) ==
  [Message("system", "injection", 0, 0, "", 0, 0) EXCEPT !.injections = <<inj>>]

\* the abort signal fires; loop() observes it at its next abort check
Abort ==
  /\ pc \in {"loop_top", "prepare", "generate", "iteration_end", "stop_check", "verify"}
  /\ ~aborted
  /\ aborted' = TRUE
  /\ UNCHANGED << pureVars, settings, pc, loopVars, systemMessages, messagesToSend, summarized,
                  contextVars, verdicts, events, returned, error >>

\* mutant of LoopTop: the abort check comes after iteration++
LoopTop_AbortAfterIncrement ==
  /\ pc = "loop_top"
  /\ iteration < MaxIter
  /\ iteration' = iteration + 1
  /\ IF aborted
       THEN /\ completionReason' = "aborted"
            /\ pc' = "return"
            /\ UNCHANGED events
       ELSE /\ events' = Append(events, Event("onIterationStart", iteration + 1))
            /\ pc' = "prepare"
            /\ UNCHANGED completionReason
  /\ UNCHANGED << pureVars, settings, aborted, allResults, currentMessages, totalUsage, reason,
                  systemMessages, messagesToSend, summarized, contextVars, verdicts,
                  returned, error >>

\* mutant of LoopTop: the stop conditions are tested before the iteration,
\* as the condition of the while loop
LoopTop_StopBeforeIteration ==
  /\ pc = "loop_top"
  /\ iteration < MaxIter
  /\ IF aborted
       THEN /\ completionReason' = "aborted"
            /\ pc' = "return"
            /\ UNCHANGED << iteration, events >>
       ELSE IF isRalphStopConditionMet(
                 getStopConditions(settings.stopWhen),
                 stopContext(iteration, allResults, totalUsage, settings.model)) = "true"
              THEN /\ completionReason' = "max-iterations"
                   /\ pc' = "return"
                   /\ UNCHANGED << iteration, events >>
              ELSE /\ iteration' = iteration + 1
                   /\ events' = Append(events, Event("onIterationStart", iteration + 1))
                   /\ pc' = "prepare"
                   /\ UNCHANGED completionReason
  /\ UNCHANGED << pureVars, settings, aborted, allResults, currentMessages, totalUsage, reason,
                  systemMessages, messagesToSend, summarized, contextVars, verdicts,
                  returned, error >>

\* top of the while loop: the abort check, iteration++ and onIterationStart
LoopTop ==
  /\ pc = "loop_top"
  /\ iteration < MaxIter
  /\ IF aborted
       THEN /\ completionReason' = "aborted"
            /\ pc' = "return"
            /\ UNCHANGED << iteration, events >>
       ELSE /\ iteration' = iteration + 1
            /\ events' = Append(events, Event("onIterationStart", iteration + 1))
            /\ pc' = "prepare"
            /\ UNCHANGED completionReason
  /\ UNCHANGED << pureVars, settings, aborted, allResults, currentMessages, totalUsage, reason,
                  systemMessages, messagesToSend, summarized, contextVars, verdicts,
                  returned, error >>

\* lines 228-294: prepare the messages (context manager, context injection,
\* continuation prompt)
Prepare ==
  /\ pc = "prepare"
  /\ LET cm       == settings.contextManagement
         compress == cm.given /\ shouldCompress(cm, currentMessages, iteration)
         prepared == IF cm.given
                       THEN preparedMessages(cm, currentMessages, iteration)
                       ELSE currentMessages
         sums     == IF cm.given
                       THEN preparedSummaries(cm, currentMessages, iteration,
                                              allResults, iterationSummaries)
                       ELSE iterationSummaries
         inj      == buildContextInjection(sums, changeLog)
         inject   == cm.given /\ ~inj.empty
         sys      == IF inject /\ systemMessages # <<>>
                       THEN [systemMessages EXCEPT ![1].injections = Append(@, inj)]
                       ELSE systemMessages
         lead     == IF inject /\ systemMessages = <<>>
                       THEN <<InjectionMessage(inj)>> ELSE <<>>
         base     == lead \o sys \o <<initialUserMessage>> \o prepared
     IN /\ iterationSummaries' = sums
        /\ currentIteration' = IF cm.given THEN iteration ELSE currentIteration
        /\ systemMessages' = sys
        /\ summarized' = compress
        /\ messagesToSend' =
             IF iteration > 1 THEN Append(base, ContinuationMessage(iteration)) ELSE base
        /\ events' = IF sums # iterationSummaries
                       THEN Append(events, Event("summarize", iteration)) ELSE events
  /\ pc' = "generate"
  /\ UNCHANGED << pureVars, settings, aborted, loopVars, changeLog, verdicts, returned, error >>

\* the change log after the tool calls of a step: the context-aware tools
\* call trackFileWrite on the agent's context manager
ToolWrites(s, log, current) ==
  IF s.contextManagement.given /\ s.step.writes > 0
    THEN addChangeLogEntry(log, ToolWriteEntry(current), s.contextManagement.changeLogBudget)
    ELSE log

\* mutant of Generate: the history is replaced by the response messages
Generate_ReplacesHistory ==
  /\ pc = "generate"
  /\ LET result == StepResult(settings.step, iteration)
     IN /\ allResults' = Append(allResults, result)
        /\ totalUsage' = addLanguageModelUsage(totalUsage, result.usage)
        /\ currentMessages' = result.messages
  /\ changeLog' = ToolWrites(settings, changeLog, currentIteration)
  /\ events' = Append(events, Event("generateText", iteration))
  /\ pc' = "iteration_end"
  /\ UNCHANGED << pureVars, settings, aborted, iteration, completionReason, reason, systemMessages,
                  messagesToSend, summarized, iterationSummaries, currentIteration,
                  verdicts, returned, error >>

\* lines 312-342: the step call, allResults.push, usage and history update
Generate ==
  /\ pc = "generate"
  /\ LET result == StepResult(settings.step, iteration)
     IN /\ allResults' = Append(allResults, result)
        /\ totalUsage' = addLanguageModelUsage(totalUsage, result.usage)
        /\ currentMessages' = currentMessages \o result.messages
  /\ changeLog' = ToolWrites(settings, changeLog, currentIteration)
  /\ events' = Append(events, Event("generateText", iteration))
  /\ pc' = "iteration_end"
  /\ UNCHANGED << pureVars, settings, aborted, iteration, completionReason, reason, systemMessages,
                  messagesToSend, summarized, iterationSummaries, currentIteration,
                  verdicts, returned, error >>

\* mutant of GenerateFails: the failure is swallowed and the loop moves on
GenerateFails_Continues ==
  /\ pc = "generate"
  /\ events' = Append(events, Event("generateText", iteration))
  /\ pc' = "loop_top"
  /\ UNCHANGED << pureVars, settings, aborted, loopVars, systemMessages, messagesToSend,
                  summarized, contextVars, verdicts, returned, error >>

\* lines 312-334: the awaited step call rejects; nothing in loop() catches
\* it, so loop() rejects with the collaborator's error
GenerateFails ==
  /\ pc = "generate"
  /\ events' = Append(events, Event("generateText", iteration))
  /\ pc' = "rejected"
  /\ error' = "step failed"
  /\ UNCHANGED << pureVars, settings, aborted, loopVars, systemMessages, messagesToSend,
                  summarized, contextVars, verdicts, returned >>

\* mutant of IterationEnd: onIterationEnd is not called
IterationEnd_NoCallback ==
  /\ pc = "iteration_end"
  /\ pc' = "stop_check"
  /\ UNCHANGED << pureVars, settings, aborted, loopVars, systemMessages, messagesToSend,
                  summarized, contextVars, verdicts, returned, error, events >>

\* lines 346-351: onIterationEnd
IterationEnd ==
  /\ pc = "iteration_end"
  /\ events' = Append(events, Event("onIterationEnd", iteration))
  /\ pc' = "stop_check"
  /\ UNCHANGED << pureVars, settings, aborted, loopVars, systemMessages, messagesToSend,
                  summarized, contextVars, verdicts, returned, error >>

\* lines 353-364: the stop conditions
CheckStop ==
  /\ pc = "stop_check"
  /\ events' = Append(events, Event("isRalphStopConditionMet", iteration))
  /\ LET met == isRalphStopConditionMet(
                  getStopConditions(settings.stopWhen),
                  stopContext(iteration, allResults, totalUsage, settings.model))
     IN CASE met = "throw" ->
               /\ pc' = "rejected"
               /\ error' = "Unknown model"
               /\ UNCHANGED completionReason
          [] met = "true" ->
               /\ pc' = "return"
               /\ completionReason' = "max-iterations"
               /\ UNCHANGED error
          [] OTHER ->
               /\ pc' = IF settings.verify.given THEN "verify" ELSE "loop_top"
               /\ UNCHANGED << completionReason, error >>
  /\ UNCHANGED << pureVars, settings, aborted, iteration, allResults, currentMessages, totalUsage,
                  reason, systemMessages, messagesToSend, summarized, contextVars,
                  verdicts, returned >>

\* lines 366-400: verifyCompletion and the feedback it gives
Verify ==
  /\ pc = "verify"
  /\ LET verification == verifyCompletion(settings.verify, iteration)
         cm == settings.contextManagement
     IN /\ verdicts' = Append(verdicts, verification)
        /\ IF verification.complete
             THEN /\ completionReason' = "verified"
                  /\ reason' = verification.reason
                  /\ pc' = "return"
                  /\ UNCHANGED << currentMessages, changeLog >>
             ELSE /\ pc' = "loop_top"
                  /\ UNCHANGED << completionReason, reason >>
                  /\ IF verification.reason.len > 0
                       THEN /\ currentMessages' =
                                 Append(currentMessages,
                                        FeedbackMessage(iteration, verification.reason))
                            /\ changeLog' =
                                 IF cm.given
                                   THEN addChangeLogEntry(
                                          changeLog,
                                          FeedbackEntry(currentIteration, verification.reason),
                                          cm.changeLogBudget)
                                   ELSE changeLog
                       ELSE UNCHANGED << currentMessages, changeLog >>
  /\ events' = Append(events, Event("verifyCompletion", iteration))
  /\ UNCHANGED << pureVars, settings, aborted, iteration, allResults, totalUsage, systemMessages,
                  messagesToSend, summarized, iterationSummaries, currentIteration,
                  returned, error >>

\* lines 403-412: finalResult = allResults[allResults.length - 1]! and the
\* returned object; finalResult.text throws a TypeError when finalResult is
\* undefined
Return ==
  /\ pc = "return"
  /\ IF allResults = <<>>
       THEN /\ pc' = "rejected"
            /\ error' = "TypeError"
            /\ UNCHANGED returned
       ELSE /\ pc' = "returned"
            /\ returned' =
                 << [text |-> allResults[Len(allResults)].text,
                     iterations |-> iteration,
                     completionReason |-> completionReason,
                     reason |-> reason,
                     result |-> allResults[Len(allResults)],
                     allResults |-> allResults] >>
            /\ UNCHANGED error
  /\ UNCHANGED << pureVars, settings, aborted, loopVars, systemMessages, messagesToSend,
                  summarized, contextVars, verdicts, events >>

Next ==
  \/ Abort
  \/ LoopTop
  \/ Prepare
  \/ Generate
  \/ GenerateFails
  \/ IterationEnd
  \/ CheckStop
  \/ Verify
  \/ Return

Spec == Init /\ [][Next]_vars

\* ---------------------------------------------------------------------
\* Stop conditions evaluated on their own
\* ---------------------------------------------------------------------
\* largest token count of a probed usage (keeps costs within 32 bits)
ProbeTokens == 200000
TokenChoices == {undefined, 0, 2000, ProbeTokens}
\* cost limits in cents: $0.00, $0.01, $1.00, $6.00
CostLimits == {0, 1, 100, 600}
RatesChoices ==
  { NoRates, ExplicitModel("anthropic/claude-opus-4.5"), ExplicitModel("nonexistent/model"),
    ExplicitRates(300, 1500), ExplicitRates(0, 0) }
ProbeConditions == {costIs(mx, rm) : mx \in CostLimits, rm \in RatesChoices}
ProbeUsage(inTok, outTok) ==
  [createEmptyUsage EXCEPT !.inputTokens = inTok, !.outputTokens = outTok,
                           !.totalTokens = addTokenCounts(inTok, outTok)]
ProbeContexts ==
  { stopContext(1, <<>>, ProbeUsage(i, o), m) :
      i \in TokenChoices, o \in TokenChoices,
      m \in {KnownModel, "anthropic/claude-haiku", UnknownModel} }

\* an agent on which loop() is not running
Idle ==
  /\ settings = CHOOSE s \in SettingsChoices :
                  /\ s.stopWhen = StopWhenAbsent /\ s.verify = NoVerify
                  /\ s.contextManagement = NoContext /\ s.instructions
                  /\ s.model = KnownModel /\ s.step.respCount = 1
                  /\ s.step.usage = KnownUsage /\ s.step.writes = 0
  /\ pc = "idle"
  /\ InitLocals

StopConditionInit ==
  /\ Idle
  /\ usageProbe = NoUsageProbe
  /\ judge = NoJudge
  /\ NoFiles
  /\ prepareProbe = NoPrepareProbe
  /\ NoRuns
  /\ probe \in {Evaluated(c, x) : c \in ProbeConditions, x \in ProbeContexts}

\* condition(context), for a stop condition and a context
EvaluateCondition ==
  /\ \E c \in ProbeConditions, x \in ProbeContexts : probe' = Evaluated(c, x)
  /\ UNCHANGED << usageProbe, judge, fileVars, prepareProbe, runVars, settings, pc, aborted, loopVars, systemMessages, messagesToSend,
                  summarized, contextVars, verdicts, events, returned, error >>

StopConditionNext == EvaluateCondition

StopConditionSpec == StopConditionInit /\ [][StopConditionNext]_vars


\* ---------------------------------------------------------------------
\* addLanguageModelUsage applied on its own
\* ---------------------------------------------------------------------
\* a usage record whose token details are known as well
DetailedUsage ==
  [inputTokens |-> 2000, noCacheTokens |-> 1500, cacheReadTokens |-> 500,
   cacheWriteTokens |-> 0, outputTokens |-> 500, textTokens |-> 400,
   reasoningTokens |-> 100, totalTokens |-> 2500]
UsageTokenChoices == {undefined, 0, 2000}
UsageChoices ==
  {ProbeUsage(i, o) : i \in UsageTokenChoices, o \in UsageTokenChoices}
  \cup {KnownUsage, UnknownUsage, DetailedUsage,
        [DetailedUsage EXCEPT !.inputTokens = undefined, !.textTokens = undefined]}

\* three usage records with the sums addLanguageModelUsage gives for them
Added(u1, u2, u3) ==
  [u1 |-> u1, u2 |-> u2, u3 |-> u3,
   sum12 |-> addLanguageModelUsage(u1, u2),
   sum21 |-> addLanguageModelUsage(u2, u1),
   left  |-> addLanguageModelUsage(addLanguageModelUsage(u1, u2), u3),
   right |-> addLanguageModelUsage(u1, addLanguageModelUsage(u2, u3))]

UsageInit ==
  /\ Idle
  /\ probe = NoProbe
  /\ judge = NoJudge
  /\ NoFiles
  /\ prepareProbe = NoPrepareProbe
  /\ NoRuns
  /\ usageProbe \in {Added(a, b, c) : a \in UsageChoices, b \in UsageChoices, c \in UsageChoices}

\* addLanguageModelUsage on a further record and the two latest ones
AddUsage ==
  /\ \E u \in UsageChoices : usageProbe' = Added(u, usageProbe.u1, usageProbe.u2)
  /\ UNCHANGED << probe, judge, fileVars, prepareProbe, runVars, settings, pc, aborted, loopVars, systemMessages,
                  messagesToSend, summarized, contextVars, verdicts, events, returned,
                  error >>

UsageNext == AddUsage

UsageSpec == UsageInit /\ [][UsageNext]_vars

\* ---------------------------------------------------------------------
\* RalphContextManager: file tracking and the change log, called directly
\* ---------------------------------------------------------------------
\* calls made on the context manager in one run of the model
MaxOps == 3
\* a scaled-down RalphContextConfig
SmallMaxFileChars == 160
SmallFileBudget == 40
CharsPerLine == 80
\* `${String(n).padStart(6)}| `
LinePrefixLen == 8
\* the truncation notice without its two numbers
TruncationNoticeLen == 91
EditQuoteLen == 50
fileConfig ==
  [maxFileChars |-> SmallMaxFileChars, fileContextBudget |-> SmallFileBudget,
   changeLogBudget |-> SmallChangeLogBudget]

RECURSIVE Digits(_)
\* String(n).length
Digits(n) == IF n < 10 THEN 1 ELSE 1 + Digits(n \div 10)

\* a file's text: `lines` lines of lineLen characters, joined by '\n'
FileText(id, lines, lineLen) == [id |-> id, lines |-> lines, lineLen |-> lineLen]
TextLength(c) == c.lines * c.lineLen + (c.lines - 1)
MediumFile == FileText(1, 2, 30)
LargeFile == FileText(2, 4, 50)
FileTexts == {MediumFile, LargeFile}
Paths == {"a.ts", "b.ts"}
PathLen == 4

NoRange == [start |-> 0, end |-> 0]
ReadOptions ==
  { [lineRange |-> NoRange, refresh |-> FALSE],
    [lineRange |-> [start |-> 2, end |-> 3], refresh |-> FALSE] }

\* length of selectedLines.map(numbered).join('\n') for k lines
NumberedLength(k, lineLen) ==
  IF k = 0 THEN 0 ELSE k * (lineLen + LinePrefixLen) + (k - 1)

\* lines 266-292: finalContent and lineRange of a cache miss
finalContent(c, options, cfg) ==
  IF TextLength(c) > cfg.maxFileChars
    THEN IF options.lineRange # NoRange
           THEN LET k == Max(0, Min(options.lineRange.end, c.lines)
                                  - (options.lineRange.start - 1))
                IN [id |-> c.id, view |-> "range", lineRange |-> options.lineRange,
                    truncated |-> FALSE, edits |-> 0,
                    len |-> NumberedLength(k, c.lineLen)]
           ELSE LET maxLines == cfg.maxFileChars \div CharsPerLine
                    k == Min(c.lines, maxLines)
                IN [id |-> c.id, view |-> "head",
                    lineRange |-> [start |-> 1, end |-> maxLines],
                    truncated |-> TRUE, edits |-> 0,
                    len |-> NumberedLength(k, c.lineLen) + TruncationNoticeLen
                              + Digits(c.lines) + Digits(maxLines)]
    ELSE [id |-> c.id, view |-> "full", lineRange |-> options.lineRange,
          truncated |-> FALSE, edits |-> 0, len |-> TextLength(c)]

\* the stored content of a finalContent
StoredContent(f) == [id |-> f.id, view |-> f.view, edits |-> f.edits, len |-> f.len]

TrackedFile(path, content, time, lineRange) ==
  [path |-> path, content |-> content, estimatedTokens |-> estimateTokens(content.len),
   lastAccessed |-> time, lineRange |-> lineRange]

\* index of the entry of path in the map, 0 when there is none
IndexOfPath(files, path) ==
  IF \E i \in DOMAIN files : files[i].path = path
    THEN CHOOSE i \in DOMAIN files : files[i].path = path
    ELSE 0

RemoveAt(seq, i) == SubSeq(seq, 1, i - 1) \o SubSeq(seq, i + 1, Len(seq))

RECURSIVE FileTokens(_)
\* Array.from(trackedFiles.values()).reduce((sum, f) => sum + f.estimatedTokens, 0)
FileTokens(files) ==
  IF files = <<>> THEN 0 ELSE Head(files).estimatedTokens + FileTokens(Tail(files))

\* first entry of the map in the stable sort by lastAccessed
OldestIndex(files) ==
  CHOOSE i \in DOMAIN files :
    \A j \in DOMAIN files :
      \/ files[i].lastAccessed < files[j].lastAccessed
      \/ (files[i].lastAccessed = files[j].lastAccessed /\ i <= j)

RECURSIVE evictLoop(_, _)
\* for (const [path, file] of sorted) { if (tokensToFree <= 0) break; ... }
evictLoop(files, tokensToFree) ==
  IF tokensToFree <= 0 \/ files = <<>> THEN files
  ELSE evictLoop(RemoveAt(files, OldestIndex(files)),
                 tokensToFree - files[OldestIndex(files)].estimatedTokens)

evictFilesIfNeeded(files, newFileTokens, cfg) ==
  IF FileTokens(files) + newFileTokens <= cfg.fileContextBudget THEN files
  ELSE evictLoop(files, (FileTokens(files) + newFileTokens) - cfg.fileContextBudget)

\* Map.set: an existing key keeps its place, a new key goes last
MapSet(files, entry) ==
  IF IndexOfPath(files, entry.path) = 0 THEN Append(files, entry)
  ELSE [files EXCEPT ![IndexOfPath(files, entry.path)] = entry]

\* trackFileRead: the map afterwards and the returned object
trackFileRead(files, path, c, options, time, cfg) ==
  LET i == IndexOfPath(files, path)
  IN IF i # 0 /\ ~options.refresh /\ options.lineRange = NoRange
       THEN [files |-> [files EXCEPT ![i].lastAccessed = time],
             hit |-> TRUE,
             result |-> [content |-> files[i].content,
                         truncated |-> files[i].lineRange # NoRange,
                         totalLines |-> undefined,
                         lineRange |-> files[i].lineRange]]
       ELSE LET f == finalContent(c, options, cfg)
                kept == evictFilesIfNeeded(files, estimateTokens(f.len), cfg)
            IN [files |-> MapSet(kept, TrackedFile(path, StoredContent(f), time,
                                                   f.lineRange)),
                hit |-> FALSE,
                result |-> [content |-> StoredContent(f), truncated |-> f.truncated,
                            totalLines |-> c.lines, lineRange |-> f.lineRange]]

\* mutant of trackFileWrite: the cache entry survives the write
trackFileWrite_KeepsEntry(files, path) == files

\* trackFileWrite, lines 319-320: trackedFiles.delete(path)
trackFileWrite(files, path) ==
  IF IndexOfPath(files, path) = 0 THEN files ELSE RemoveAt(files, IndexOfPath(files, path))

\* an edit: oldString (which occurs in the file) and newString, by length
EditChoices == {[oldLen |-> 5, newLen |-> 15]}

\* mutant of trackFileEdit: an edit of an uncached path caches the file
trackFileEdit_CachesFile(files, path, edit, time) ==
  LET i == IndexOfPath(files, path)
  IN IF i = 0
       THEN Append(files, TrackedFile(path, [id |-> 0, view |-> "full", edits |-> 1,
                                             len |-> edit.newLen], time, NoRange))
     ELSE LET content == [files[i].content EXCEPT
                            !.len = @ + (edit.newLen - edit.oldLen), !.edits = @ + 1]
          IN [files EXCEPT ![i].content = content,
                           ![i].estimatedTokens = estimateTokens(content.len),
                           ![i].lastAccessed = time]

\* trackFileEdit, lines 335-340
trackFileEdit(files, path, edit, time) ==
  LET i == IndexOfPath(files, path)
  IN IF i = 0 THEN files
     ELSE LET content == [files[i].content EXCEPT
                            !.len = @ + (edit.newLen - edit.oldLen), !.edits = @ + 1]
          IN [files EXCEPT ![i].content = content,
                           ![i].estimatedTokens = estimateTokens(content.len),
                           ![i].lastAccessed = time]

\* an entry as addChangeLogEntry stores it
ChangeLogEntry(type, summaryLen, detailsLen) ==
  [iteration |-> currentIteration, type |-> type,
   summaryLen |-> summaryLen, detailsLen |-> detailsLen, r |-> 0]
\* { type: 'action', summary: `Modified file: ${path}`, details: `Wrote ${n} chars` }
WriteEntry(c) == ChangeLogEntry("action", 15 + PathLen, 12 + Digits(TextLength(c)))
QuotedLen(n) == Min(n, EditQuoteLen) + (IF n > EditQuoteLen THEN 3 ELSE 0)
\* { type: 'action', summary: `Edited file: ${path}`, details: `Replaced "..." with "..."` }
EditEntry(edit) ==
  ChangeLogEntry("action", 13 + PathLen, 19 + QuotedLen(edit.oldLen) + QuotedLen(edit.newLen))
\* entries passed to addChangeLogEntry directly: one that fits the budget
\* twice over only with trimming, and one larger than the whole budget
DirectEntries ==
  { ChangeLogEntry("decision", 100, 100), ChangeLogEntry("error", 300, 0) }

\* a call on the context manager with what it returned and the state around it
FileOp(op, path, c, options, hit, result, before, after) ==
  [op |-> op, path |-> path, content |-> c, options |-> options, hit |-> hit,
   result |-> result, before |-> before, after |-> after]
NoResult == [content |-> <<>>]
NoText == FileText(0, 0, 0)
\* Date.now() at a call: the time of the previous call or later
Times == {now, now + 1}

ContextManagerInit ==
  /\ Idle
  /\ probe = NoProbe
  /\ usageProbe = NoUsageProbe
  /\ judge = NoJudge
  /\ NoFiles
  /\ prepareProbe = NoPrepareProbe
  /\ NoRuns

TrackFileRead ==
  /\ Len(fileOps) < MaxOps
  /\ \E path \in Paths, c \in FileTexts, options \in ReadOptions, time \in Times :
       LET read == trackFileRead(trackedFiles, path, c, options, time, fileConfig)
       IN /\ trackedFiles' = read.files
          /\ now' = time
          /\ fileOps' = Append(fileOps, FileOp("read", path, c, options, read.hit,
                                               read.result, trackedFiles, read.files))
  /\ UNCHANGED << appended, probe, usageProbe, judge, prepareProbe, runVars, settings, pc, aborted, loopVars,
                  systemMessages, messagesToSend, summarized, contextVars, verdicts,
                  events, returned, error >>

TrackFileWrite ==
  /\ Len(fileOps) < MaxOps
  /\ \E path \in Paths, c \in {MediumFile} :
       LET files == trackFileWrite(trackedFiles, path)
       IN /\ trackedFiles' = files
          /\ changeLog' = addChangeLogEntry(changeLog, WriteEntry(c),
                                            fileConfig.changeLogBudget)
          /\ appended' = Append(appended, WriteEntry(c))
          /\ fileOps' = Append(fileOps, FileOp("write", path, c, <<>>, FALSE, NoResult,
                                               trackedFiles, files))
  /\ UNCHANGED << now, probe, usageProbe, judge, prepareProbe, runVars, settings, pc, aborted, loopVars,
                  systemMessages, messagesToSend, summarized, iterationSummaries,
                  currentIteration, verdicts, events, returned, error >>

TrackFileEdit ==
  /\ Len(fileOps) < MaxOps
  /\ \E path \in Paths, edit \in EditChoices, time \in Times :
       LET files == trackFileEdit(trackedFiles, path, edit, time)
       IN /\ trackedFiles' = files
          /\ now' = time
          /\ changeLog' = addChangeLogEntry(changeLog, EditEntry(edit),
                                            fileConfig.changeLogBudget)
          /\ appended' = Append(appended, EditEntry(edit))
          /\ fileOps' = Append(fileOps, FileOp("edit", path, NoText, <<>>, FALSE, NoResult,
                                               trackedFiles, files))
  /\ UNCHANGED << probe, usageProbe, judge, prepareProbe, runVars, settings, pc, aborted, loopVars,
                  systemMessages, messagesToSend, summarized, iterationSummaries,
                  currentIteration, verdicts, events, returned, error >>

AddChangeLogEntry ==
  /\ Len(fileOps) < MaxOps
  /\ \E entry \in DirectEntries :
       /\ changeLog' = addChangeLogEntry(changeLog, entry, fileConfig.changeLogBudget)
       /\ appended' = Append(appended, entry)
       /\ fileOps' = Append(fileOps, FileOp("log", "", NoText, <<>>, FALSE, NoResult,
                                            trackedFiles, trackedFiles))
  /\ UNCHANGED << trackedFiles, now, probe, usageProbe, judge, prepareProbe, runVars, settings, pc, aborted,
                  loopVars, systemMessages, messagesToSend, summarized,
                  iterationSummaries, currentIteration, verdicts, events, returned,
                  error >>

ContextManagerNext ==
  \/ TrackFileRead
  \/ TrackFileWrite
  \/ TrackFileEdit
  \/ AddChangeLogEntry

ContextManagerSpec == ContextManagerInit /\ [][ContextManagerNext]_vars

\* ---------------------------------------------------------------------
\* ralph-loop-agent.ts: parseEvaluationResponse
\* ---------------------------------------------------------------------
\* a judge response is a sequence of chunks of text, at most MaxLen of them
MaxLen == 3
Chunks ==
  {" ", "yes", "no", "NO", ",", "fix", "task is complete", "Task has been completed"}
Responses == UNION {[1..n -> Chunks] : n \in 0..MaxLen}

\* String.prototype.toUpperCase, chunk by chunk
UpperChunk(c) ==
  CASE c = "yes" -> "YES"
    [] c = "no" -> "NO"
    [] c = "fix" -> "FIX"
    [] c = "task is complete" -> "TASK IS COMPLETE"
    [] c = "Task has been completed" -> "TASK HAS BEEN COMPLETED"
    [] OTHER -> c
toUpperCase(r) == [i \in DOMAIN r |-> UpperChunk(r[i])]

RECURSIVE trimStart(_)
trimStart(r) == IF r # <<>> /\ Head(r) = " " THEN trimStart(Tail(r)) ELSE r
RECURSIVE trimEnd(_)
trimEnd(r) ==
  IF r # <<>> /\ r[Len(r)] = " " THEN trimEnd(SubSeq(r, 1, Len(r) - 1)) ELSE r
\* String.prototype.trim
trim(r) == trimEnd(trimStart(r))

startsWith(r, c) == r # <<>> /\ Head(r) = c
includes(r, c) == \E i \in DOMAIN r : r[i] = c

RECURSIVE skipSeparators(_)
\* the [,:\s]* of the regular expression
skipSeparators(r) ==
  IF r # <<>> /\ Head(r) \in {",", ":", " "} THEN skipSeparators(Tail(r)) ELSE r
\* response.replace(/^no[,:\s]*/i, ''): anchored at the start of the response
replaceLeadingNo(r) ==
  IF r # <<>> /\ UpperChunk(Head(r)) = "NO" THEN skipSeparators(Tail(r)) ELSE r

\* the RalphEvaluatorResult; feedback <<>> is undefined, unclear marks the
\* reason `Unclear response: ${response}`
EvaluatorResult(isComplete, feedback, unclear, response) ==
  [isComplete |-> isComplete, feedback |-> feedback,
   reason |-> [unclear |-> unclear, response |-> response]]

\* mutant of parseEvaluationResponse: an unclear response counts as complete
parseEvaluationResponse_UnclearIsComplete(response) ==
  LET normalizedResponse == toUpperCase(trim(response))
  IN IF startsWith(normalizedResponse, "NO")
       THEN EvaluatorResult(FALSE, trim(replaceLeadingNo(response)), FALSE, response)
       ELSE EvaluatorResult(TRUE, <<>>, FALSE, response)

parseEvaluationResponse(response) ==
  LET normalizedResponse == toUpperCase(trim(response))
  IN IF \/ startsWith(normalizedResponse, "YES")
        \/ includes(normalizedResponse, "TASK IS COMPLETE")
        \/ includes(normalizedResponse, "TASK HAS BEEN COMPLETED")
       THEN EvaluatorResult(TRUE, <<>>, FALSE, response)
     ELSE IF startsWith(normalizedResponse, "NO")
       THEN EvaluatorResult(FALSE, trim(replaceLeadingNo(response)), FALSE, response)
     ELSE EvaluatorResult(FALSE, <<>>, TRUE, response)

Parsed(response) == [response |-> response, result |-> parseEvaluationResponse(response)]

JudgeInit ==
  /\ Idle
  /\ probe = NoProbe
  /\ usageProbe = NoUsageProbe
  /\ NoFiles
  /\ prepareProbe = NoPrepareProbe
  /\ NoRuns
  /\ judge \in {<<Parsed(r)>> : r \in Responses}

\* parseEvaluationResponse on the next response of the judge: the previous
\* one with a chunk more, or a new one
ParseEvaluationResponse ==
  /\ \E c \in Chunks :
       LET previous == judge[1].response
           response == IF Len(previous) < MaxLen THEN Append(previous, c) ELSE <<c>>
       IN judge' = <<Parsed(response)>>
  /\ UNCHANGED << probe, usageProbe, fileVars, prepareProbe, runVars, settings, pc, aborted, loopVars,
                  systemMessages, messagesToSend, summarized, contextVars, verdicts,
                  events, returned, error >>

JudgeNext == ParseEvaluationResponse

JudgeSpec == JudgeInit /\ [][JudgeNext]_vars

\* ---------------------------------------------------------------------
\* RalphContextManager.prepareMessagesForIteration, called directly
\* ---------------------------------------------------------------------
\* summaries one context manager collects in a run of the model
MaxSummaries == 2
MaxPrepareIteration == 3

\* the RalphContextConfig of the manager under test
PrepareConfigs ==
  { ContextConfig(maxTok, DefaultChangeLogBudget, keep, ef[1], ef[2]) :
      maxTok \in {SmallContextTokens, 2 * SmallContextTokens},
      keep \in 0..2,
      ef \in {<<TRUE, FALSE>>, <<TRUE, TRUE>>, <<FALSE, FALSE>>} }

\* a history of n messages of t estimated tokens each
History(n, t) == [j \in 1..n |-> ResponseMessage(1, j, t)]
Histories ==
  { History(0, 1), History(6, 1), History(7, 1), History(4, 2), History(11, 1),
    History(14, 1), History(25, 1) }

\* previousResult: absent, or a result with its response.messages
PreviousResults ==
  { <<>>, <<[messages |-> <<>>]>>, <<[messages |-> History(2, 4)]>> }

\* one call: its arguments, what it returned, the summaries before and after
Prepared(cm, called, iter, msgs, previous, summaries) ==
  [config |-> cm, called |-> called, iteration |-> iter, history |-> msgs,
   previous |-> previous,
   messages |-> preparedMessages(cm, msgs, iter),
   summarized |-> shouldCompress(cm, msgs, iter),
   before |-> summaries,
   after |-> preparedSummaries(cm, msgs, iter, previous, summaries)]

PrepareInit ==
  /\ Idle
  /\ probe = NoProbe
  /\ usageProbe = NoUsageProbe
  /\ judge = NoJudge
  /\ NoFiles
  /\ NoRuns
  /\ \E cm \in PrepareConfigs :
       prepareProbe = Prepared(cm, FALSE, 0, <<>>, <<>>, <<>>)

PrepareMessagesForIteration ==
  /\ Len(iterationSummaries) < MaxSummaries
  /\ \E iter \in 1..MaxPrepareIteration, msgs \in Histories, previous \in PreviousResults :
       LET call == Prepared(prepareProbe.config, TRUE, iter, msgs, previous,
                            iterationSummaries)
       IN /\ prepareProbe' = call
          /\ currentIteration' = iter
          /\ iterationSummaries' = call.after
  /\ UNCHANGED << probe, usageProbe, judge, fileVars, runVars, settings, pc, aborted, loopVars,
                  systemMessages, messagesToSend, summarized, changeLog, verdicts,
                  events, returned, error >>

PrepareNext == PrepareMessagesForIteration

PrepareSpec == PrepareInit /\ [][PrepareNext]_vars

\* ---------------------------------------------------------------------
\* loop() followed through its calls of collaborators: every call starts,
\* is in flight, and completes; what the collaborators answer is left open
\* ---------------------------------------------------------------------
MaxAwaitIterations == 3

\* which optional collaborators the agent is configured with
AwaitConfigs == [contextManagement : BOOLEAN, verifyCompletion : BOOLEAN]

\* mutant of Awaited: onIterationEnd is fired without `await`
Awaited_NotOnIterationEnd(site) == site # "onIterationEnd"

\* every call of a collaborator in loop() is behind `await`
Awaited(site) ==
  site \in {"onIterationStart", "prepareMessagesForIteration", "onContextSummarized",
            "generateText", "onIterationEnd", "isRalphStopConditionMet",
            "verifyCompletion"}

\* one call or completion in the log of a run
Phase(site, iter, phase) == [call |-> site, iteration |-> iter, phase |-> phase]

\* where loop() goes on once the call at `site` has completed; answer is
\* what a collaborator with a choice returned
AfterSite(site, config, iter, answer) ==
  CASE site = "onIterationStart" ->
         IF config.contextManagement THEN "prepareMessagesForIteration" ELSE "generateText"
    [] site = "prepareMessagesForIteration" ->
         IF answer THEN "onContextSummarized" ELSE "generateText"
    [] site = "onContextSummarized" -> "generateText"
    [] site = "generateText" -> "onIterationEnd"
    [] site = "onIterationEnd" -> "isRalphStopConditionMet"
    [] site = "isRalphStopConditionMet" ->
         IF answer \/ iter >= MaxAwaitIterations THEN "return"
         ELSE IF config.verifyCompletion THEN "verifyCompletion" ELSE "loop_top"
    [] site = "verifyCompletion" -> IF answer THEN "return" ELSE "loop_top"
    [] OTHER -> "return"

AwaitState(config, at, waiting, iter, inflight, log) ==
  [config |-> config, at |-> at, waiting |-> waiting, iteration |-> iter,
   inflight |-> inflight, log |-> log]

AwaitInit ==
  /\ Idle
  /\ probe = NoProbe
  /\ usageProbe = NoUsageProbe
  /\ judge = NoJudge
  /\ NoFiles
  /\ prepareProbe = NoPrepareProbe
  /\ runs = NoRun
  /\ \E config \in AwaitConfigs :
       awaitProbe = AwaitState(config, "loop_top", FALSE, 0, {}, <<>>)

AwaitUnchanged ==
  UNCHANGED << probe, usageProbe, judge, fileVars, prepareProbe, runs, settings, pc,
               aborted, loopVars, systemMessages, messagesToSend, summarized,
               contextVars, verdicts, events, returned, error >>

\* top of the while loop: the abort check, then iteration++
AwaitLoopTop ==
  /\ awaitProbe.at = "loop_top" /\ ~awaitProbe.waiting
  /\ \E signalled \in BOOLEAN :
       awaitProbe' =
         IF signalled
           THEN [awaitProbe EXCEPT !.at = "return"]
           ELSE [awaitProbe EXCEPT !.at = "onIterationStart", !.iteration = @ + 1]
  /\ AwaitUnchanged

\* loop() reaches a call: the call starts; behind `await` loop() is
\* suspended until it completes, otherwise loop() goes on at once
AwaitCall ==
  /\ awaitProbe.at \notin {"loop_top", "return", "returned"} /\ ~awaitProbe.waiting
  /\ LET site == awaitProbe.at
         call == Phase(site, awaitProbe.iteration, "call")
     IN \E answer \in BOOLEAN :
          awaitProbe' =
            [awaitProbe EXCEPT
               !.inflight = @ \cup {[call |-> site, iteration |-> awaitProbe.iteration]},
               !.log = Append(@, call),
               !.waiting = Awaited(site),
               !.at = IF Awaited(site) THEN site
                      ELSE AfterSite(site, awaitProbe.config, awaitProbe.iteration, answer)]
  /\ AwaitUnchanged

\* a call in flight completes; if loop() is suspended on it, loop() resumes
AwaitComplete ==
  /\ \E c \in awaitProbe.inflight, answer \in BOOLEAN :
       LET resumes == /\ awaitProbe.waiting /\ c.call = awaitProbe.at
                      /\ c.iteration = awaitProbe.iteration
       IN awaitProbe' =
            [awaitProbe EXCEPT
               !.inflight = @ \ {c},
               !.log = Append(@, Phase(c.call, c.iteration, "return")),
               !.waiting = IF resumes THEN FALSE ELSE @,
               !.at = IF resumes
                        THEN AfterSite(c.call, awaitProbe.config, c.iteration, answer)
                        ELSE @]
  /\ AwaitUnchanged

\* loop() returns its result
AwaitReturn ==
  /\ awaitProbe.at = "return" /\ ~awaitProbe.waiting
  /\ awaitProbe' = [awaitProbe EXCEPT !.at = "returned"]
  /\ AwaitUnchanged

AwaitNext == AwaitLoopTop \/ AwaitCall \/ AwaitComplete \/ AwaitReturn

AwaitSpec == AwaitInit /\ [][AwaitNext]_vars

\* ---------------------------------------------------------------------
\* Several loop() calls on one RalphLoopAgent: the agent holds one context
\* manager, created in its constructor, that every call uses
\* ---------------------------------------------------------------------
MaxRunIterations == 2
MaxExternalEntries == 1
\* the first and the second call of loop()
RunIds == {1, 2}
\* iterations a call is followed through: the first call to its end, a
\* later one through its first iteration
RunIterations(r) == IF r = 1 THEN MaxRunIterations ELSE 1

\* the state of the context manager
ManagerState(files, log, summaries, current) ==
  [trackedFiles |-> files, changeLog |-> log, iterationSummaries |-> summaries,
   currentIteration |-> current]

\* mutant of clear: the change log and the tracked files survive
clear_KeepsLogAndFiles(manager) ==
  [manager EXCEPT !.iterationSummaries = <<>>, !.currentIteration = 0]

\* RalphContextManager.clear()
clear(manager) == ManagerState(<<>>, <<>>, <<>>, 0)

\* the file a run's tools read and write, and the entry of the write
RunPath(r) == IF r = 1 THEN "a.ts" ELSE "b.ts"
RunWriteEntry(r, current) == [ToolWriteEntry(current) EXCEPT !.r = r]
\* the reason the verifier of run r gives
RunReason(r) == [len |-> 9, id |-> r]

\* a loop() call: its position, what it recorded in the manager, the
\* injection it built last, what it found at its first iteration, and
\* whether another call was under way at some time since it started
Run(pcOfRun, iter, recorded, injection, first, overlapped) ==
  [pc |-> pcOfRun, iteration |-> iter, recorded |-> recorded, injection |-> injection,
   first |-> first, overlapped |-> overlapped]
NotStarted == Run("idle", 0, <<>>, buildContextInjection(<<>>, <<>>), <<>>, FALSE)
Active(r) == runs[r].pc \notin {"idle", "done"}

RunsInit ==
  /\ Idle
  /\ probe = NoProbe
  /\ usageProbe = NoUsageProbe
  /\ judge = NoJudge
  /\ NoFiles
  /\ prepareProbe = NoPrepareProbe
  /\ awaitProbe = NoAwaitProbe
  /\ runs = [r \in RunIds |-> NotStarted]

RunsUnchanged ==
  UNCHANGED << probe, usageProbe, judge, now, fileOps, appended, prepareProbe, awaitProbe,
               settings, pc, aborted, loopVars, systemMessages, messagesToSend,
               summarized, verdicts, events, returned, error >>

\* the caller adds an entry through getContextManager() while no call of
\* loop() is under way
ExternalEntry ==
  /\ \A r \in RunIds : ~Active(r)
  /\ Len(changeLog) < MaxExternalEntries
  /\ changeLog' = addChangeLogEntry(changeLog, RunWriteEntry(0, currentIteration),
                                    DefaultChangeLogBudget)
  /\ UNCHANGED << runs, trackedFiles, iterationSummaries, currentIteration >>
  /\ RunsUnchanged

\* loop() is called: the locals are set up and the manager is cleared; the
\* calls are numbered in the order they are made
RunStart(r) ==
  /\ runs[r].pc = "idle"
  /\ \A o \in RunIds : o < r => runs[o].pc # "idle"
  /\ LET manager == clear(ManagerState(trackedFiles, changeLog, iterationSummaries,
                                       currentIteration))
         others  == {o \in RunIds \ {r} : Active(o)}
     IN /\ trackedFiles' = manager.trackedFiles
        /\ changeLog' = manager.changeLog
        /\ iterationSummaries' = manager.iterationSummaries
        /\ currentIteration' = manager.currentIteration
        /\ runs' = [o \in RunIds |->
                      IF o = r THEN [runs[r] EXCEPT !.pc = "loop_top",
                                                    !.overlapped = others # {}]
                      ELSE IF o \in others THEN [runs[o] EXCEPT !.overlapped = TRUE]
                      ELSE runs[o]]
  /\ RunsUnchanged

\* iteration++, prepareMessagesForIteration (setIteration, and a summary of
\* the previous iteration when it compresses) and buildContextInjection
RunPrepare(r) ==
  /\ runs[r].pc = "loop_top"
  /\ \E compress \in BOOLEAN :
       LET iter      == runs[r].iteration + 1
           summaries == IF compress /\ iter > 1
                          THEN Append(iterationSummaries, IterationSummary(iter - 1, FALSE))
                          ELSE iterationSummaries
           injection == buildContextInjection(summaries, changeLog)
       IN /\ currentIteration' = iter
          /\ iterationSummaries' = summaries
          /\ runs' = [runs EXCEPT
                        ![r].pc = "generate", ![r].iteration = iter,
                        ![r].injection = injection,
                        ![r].first = IF iter = 1
                                       THEN <<[injection |-> injection,
                                               trackedFiles |-> trackedFiles]>>
                                       ELSE @]
  /\ UNCHANGED << trackedFiles, changeLog >>
  /\ RunsUnchanged

\* the step call: the run's tools read a file and write it
RunStep(r) ==
  /\ runs[r].pc = "generate"
  /\ LET entry == RunWriteEntry(r, currentIteration)
     IN /\ trackedFiles' =
             trackFileRead(trackedFiles, RunPath(r), MediumFile,
                           [lineRange |-> NoRange, refresh |-> FALSE], now,
                           fileConfig).files
        /\ changeLog' = addChangeLogEntry(changeLog, entry, DefaultChangeLogBudget)
        /\ runs' = [runs EXCEPT ![r].pc = "verify",
                                ![r].recorded = Append(@, entry)]
  /\ UNCHANGED << iterationSummaries, currentIteration >>
  /\ RunsUnchanged

\* verifyCompletion answers incomplete with a reason: the feedback entry
RunVerify(r) ==
  /\ runs[r].pc = "verify"
  /\ LET entry == FeedbackEntry(currentIteration, RunReason(r))
     IN /\ changeLog' = addChangeLogEntry(changeLog, entry, DefaultChangeLogBudget)
        /\ runs' = [runs EXCEPT
                      ![r].pc = IF runs[r].iteration >= RunIterations(r)
                                  THEN "done" ELSE "loop_top",
                      ![r].recorded = Append(@, entry)]
  /\ UNCHANGED << trackedFiles, iterationSummaries, currentIteration >>
  /\ RunsUnchanged

RunsNext ==
  \/ ExternalEntry
  \/ \E r \in RunIds : RunStart(r) \/ RunPrepare(r) \/ RunStep(r) \/ RunVerify(r)

RunsSpec == RunsInit /\ [][RunsNext]_vars

\* ---------------------------------------------------------------------
\* RalphLoopAgent.stream
\* ---------------------------------------------------------------------
\* the settings stream() is followed with: it uses no context manager
StreamSettings ==
  { s \in SettingsChoices :
      /\ s.contextManagement = NoContext /\ s.model = KnownModel /\ s.instructions
      /\ s.step.writes = 0 /\ s.step.usage = KnownUsage
      /\ \/ s.stopWhen = StopWhenAbsent
         \/ \E n \in 1..MaxN : s.stopWhen = StopWhenOne(iterationCountIs(n)) }

StreamInit ==
  /\ settings \in StreamSettings
  /\ pc = "stream_top"
  /\ probe = NoProbe
  /\ usageProbe = NoUsageProbe
  /\ judge = NoJudge
  /\ NoFiles
  /\ prepareProbe = NoPrepareProbe
  /\ NoRuns
  /\ InitLocals

\* the abort signal fires
StreamAbort ==
  /\ pc \in {"stream_top", "stream_generate", "stream_verify"}
  /\ ~aborted
  /\ aborted' = TRUE
  /\ UNCHANGED << pureVars, settings, pc, loopVars, systemMessages, messagesToSend, summarized,
                  contextVars, verdicts, events, returned, error >>

\* lines 439-476: the abort check, iteration++, the stop conditions on the
\* context of the next iteration, onIterationStart and the messages
StreamTop ==
  /\ pc = "stream_top"
  /\ IF aborted
       THEN /\ pc' = "stream_final"
            /\ UNCHANGED << iteration, events, messagesToSend >>
       ELSE LET iter == iteration + 1
                met  == isRalphStopConditionMet(
                          getStopConditions(settings.stopWhen),
                          stopContext(iter + 1, allResults, totalUsage, settings.model))
                base == systemMessages \o <<initialUserMessage>> \o currentMessages
            IN /\ iteration' = iter
               /\ IF met = "true"
                    THEN /\ pc' = "stream_final"
                         /\ events' = Append(events, Event("isRalphStopConditionMet", iter))
                         /\ UNCHANGED messagesToSend
                    ELSE /\ pc' = "stream_generate"
                         /\ events' = events \o <<Event("isRalphStopConditionMet", iter),
                                                  Event("onIterationStart", iter)>>
                         /\ messagesToSend' =
                              IF iter > 1 THEN Append(base, ContinuationMessage(iter))
                              ELSE base
  /\ UNCHANGED << pureVars, settings, aborted, allResults, currentMessages, totalUsage,
                  completionReason, reason, systemMessages, summarized, contextVars,
                  verdicts, returned, error >>

\* lines 481-509: the non-streamed step call and onIterationEnd
StreamGenerate ==
  /\ pc = "stream_generate"
  /\ LET result == StepResult(settings.step, iteration)
     IN /\ allResults' = Append(allResults, result)
        /\ totalUsage' = addLanguageModelUsage(totalUsage, result.usage)
        /\ currentMessages' = currentMessages \o result.messages
  /\ events' = events \o <<Event("generateText", iteration),
                           Event("onIterationEnd", iteration)>>
  /\ pc' = IF settings.verify.given THEN "stream_verify" ELSE "stream_top"
  /\ UNCHANGED << pureVars, settings, aborted, iteration, completionReason, reason,
                  systemMessages, messagesToSend, summarized, contextVars, verdicts,
                  returned, error >>

\* lines 511-540: verifyCompletion; complete: the history is streamed
StreamVerify ==
  /\ pc = "stream_verify"
  /\ LET verification == verifyCompletion(settings.verify, iteration)
     IN /\ verdicts' = Append(verdicts, verification)
        /\ IF verification.complete
             THEN /\ messagesToSend' =
                       systemMessages \o <<initialUserMessage>> \o currentMessages
                  /\ events' = events \o <<Event("verifyCompletion", iteration),
                                           Event("streamText", iteration)>>
                  /\ pc' = "streamed"
                  /\ UNCHANGED currentMessages
             ELSE /\ currentMessages' =
                       IF verification.reason.len > 0
                         THEN Append(currentMessages,
                                     FeedbackMessage(iteration, verification.reason))
                         ELSE currentMessages
                  /\ events' = Append(events, Event("verifyCompletion", iteration))
                  /\ pc' = "stream_top"
                  /\ UNCHANGED messagesToSend
  /\ UNCHANGED << pureVars, settings, aborted, iteration, allResults, totalUsage,
                  completionReason, reason, systemMessages, summarized, contextVars,
                  returned, error >>

\* lines 542-587: iteration++ and the streamed final step call
StreamFinal ==
  /\ pc = "stream_final"
  /\ LET iter == iteration + 1
         base == systemMessages \o <<initialUserMessage>> \o currentMessages
     IN /\ iteration' = iter
        /\ messagesToSend' =
             IF iter > 1 THEN Append(base, ContinuationMessage(iter)) ELSE base
        /\ events' = Append(events, Event("streamText", iter))
  /\ pc' = "streamed"
  /\ UNCHANGED << pureVars, settings, aborted, allResults, currentMessages, totalUsage,
                  completionReason, reason, systemMessages, summarized, contextVars,
                  verdicts, returned, error >>

StreamNext ==
  \/ StreamAbort
  \/ StreamTop
  \/ StreamGenerate
  \/ StreamVerify
  \/ StreamFinal

StreamSpec == StreamInit /\ [][StreamNext]_vars

\* ---------------------------------------------------------------------
\* Observations used by the properties
\* ---------------------------------------------------------------------
\* number of calls of the given kind loop() has made
Calls(call) == Cardinality({i \in DOMAIN events : events[i].call = call})
StepCalls == Calls("generateText")
LastEventIs(call) == events # <<>> /\ events[Len(events)].call = call
Running == pc \notin {"returned", "rejected"}
\* loop() rejected with the error of the step collaborator
StepFailed == pc = "rejected" /\ error = "step failed"
\* stopWhen is the single condition iterationCountIs(n)
OnlyIterationCount(n) == settings.stopWhen = StopWhenOne(iterationCountIs(n))
\* verifyCompletion is absent or never reports complete
NeverComplete == ~settings.verify.given \/ settings.verify.firstComplete = 0

\* ---------------------------------------------------------------------
\* C1: with only stopWhen = iterationCountIs(n), n >= 1, and a verifier
\* that never reports complete (or none), a run that is not aborted and
\* whose step calls succeed never makes more than n step calls, never
\* rejects, and returns only after exactly n step calls, with
\* iterations = n and 'max-iterations'.
\* ---------------------------------------------------------------------
C1_StopsAfterExactlyN ==
  \A n \in 1..MaxN :
    (OnlyIterationCount(n) /\ NeverComplete /\ ~aborted /\ ~StepFailed) =>
      /\ StepCalls <= n
      /\ iteration <= n
      /\ pc # "rejected"
      /\ (pc \in {"return", "returned"} =>
            StepCalls = n /\ iteration = n /\ completionReason = "max-iterations")
      /\ (pc = "returned" =>
            /\ returned[1].iterations = n
            /\ returned[1].completionReason = "max-iterations")

C1_Witness ==
  /\ OnlyIterationCount(MaxN) /\ settings.verify.given /\ NeverComplete /\ ~aborted
  /\ pc = "returned" /\ returned[1].iterations = MaxN /\ StepCalls = MaxN

\* ---------------------------------------------------------------------
\* C2 (as claimed): with stopWhen = iterationCountIs(n) and a verifier
\* that first reports complete at iteration k, 1 <= k <= n, a run that is
\* not aborted returns after exactly k iterations with 'verified'.
\* ---------------------------------------------------------------------
C2_VerifiedAtK ==
  \A n \in 1..MaxN : \A k \in 1..n :
    (/\ OnlyIterationCount(n) /\ settings.verify.given
     /\ settings.verify.firstComplete = k /\ ~aborted /\ pc = "returned") =>
      /\ returned[1].iterations = k
      /\ returned[1].completionReason = "verified"

\* ---------------------------------------------------------------------
\* C5: the run becomes 'aborted' only at the abort check at the top of
\* the loop; when the signal is set there after k >= 1 iterations the
\* check makes no further call, and loop() returns 'aborted' with
\* iterations = k and the result of iteration k.
\* ---------------------------------------------------------------------
C5_AbortAtBoundary ==
  [][ /\ (completionReason' = "aborted" /\ completionReason # "aborted") =>
           (pc = "loop_top" /\ aborted)
      /\ (pc = "loop_top" /\ aborted /\ iteration >= 1) =>
           /\ pc' = "return" /\ completionReason' = "aborted"
           /\ events' = events /\ iteration' = iteration /\ allResults' = allResults
      /\ (pc = "return" /\ completionReason = "aborted" /\ iteration >= 1) =>
           /\ pc' = "returned"
           /\ events' = events
           /\ returned'[1].completionReason = "aborted"
           /\ returned'[1].iterations = iteration
           /\ StepCalls = iteration
           /\ Calls("onIterationStart") = iteration
           /\ returned'[1].result = StepResult(settings.step, iteration)
           /\ returned'[1].result = allResults[Len(allResults)]
    ]_vars

C5_Witness ==
  /\ pc = "returned" /\ returned[1].completionReason = "aborted"
  /\ returned[1].iterations = 2 /\ StepCalls = 2

\* ---------------------------------------------------------------------
\* C6 (as claimed): a run whose abort signal is already set before
\* iteration 1 does not reject: it ends returned, 'aborted', with
\* iterations = 0 and no step call.
\* ---------------------------------------------------------------------
C6_AbortBeforeFirstIteration ==
  (completionReason = "aborted" /\ iteration = 0 /\ ~Running) =>
    /\ pc = "returned"
    /\ returned[1].completionReason = "aborted"
    /\ returned[1].iterations = 0
    /\ StepCalls = 0

\* ---------------------------------------------------------------------
\* C7: every stop-condition evaluation follows the step call of its
\* iteration; with a stop condition that already holds before iteration 1
\* (iterationCountIs(0), tokenCountIs(0)) a run that is not aborted and
\* whose step call succeeds makes exactly one step call, never calls the
\* verifier, and stops with 'max-iterations' and iterations = 1.
\* ---------------------------------------------------------------------
AlreadyTrueStop ==
  settings.stopWhen \in {StopWhenOne(iterationCountIs(0)), StopWhenOne(tokenCountIs(0))}

C7_StopOnlyAfterIteration ==
  /\ LastEventIs("isRalphStopConditionMet") =>
       /\ Len(events) >= 2
       /\ events[Len(events) - 1] = Event("onIterationEnd", events[Len(events)].iteration)
       /\ Calls("generateText") = events[Len(events)].iteration
       /\ Calls("isRalphStopConditionMet") = events[Len(events)].iteration
  /\ (AlreadyTrueStop /\ ~aborted /\ ~StepFailed) =>
       /\ StepCalls <= 1
       /\ pc # "rejected"
       /\ verdicts = <<>>
       /\ (pc \in {"return", "returned"} =>
             StepCalls = 1 /\ iteration = 1 /\ completionReason = "max-iterations")
       /\ (pc = "returned" =>
             /\ returned[1].iterations = 1
             /\ returned[1].completionReason = "max-iterations")

C7_Witness ==
  /\ settings.stopWhen = StopWhenOne(tokenCountIs(0)) /\ settings.verify.given
  /\ ~aborted /\ pc = "returned" /\ returned[1].iterations = 1

\* ---------------------------------------------------------------------
\* C8: with stopWhen absent and a verifier that never reports complete, a
\* run that is not aborted and whose step calls succeed makes at most 10
\* step calls and returns only after exactly 10, with iterations = 10 and
\* 'max-iterations'.
\* ---------------------------------------------------------------------
C8_DefaultTenIterations ==
  (~settings.stopWhen.given /\ NeverComplete /\ ~aborted /\ ~StepFailed) =>
    /\ StepCalls <= 10
    /\ pc # "rejected"
    /\ (pc \in {"return", "returned"} =>
          StepCalls = 10 /\ completionReason = "max-iterations")
    /\ (pc = "returned" => returned[1].iterations = 10)

C8_Witness ==
  /\ ~settings.stopWhen.given /\ settings.verify.given /\ NeverComplete /\ ~aborted
  /\ pc = "returned" /\ returned[1].iterations = 10 /\ StepCalls = 10

\* ---------------------------------------------------------------------
\* C9: after every stop-condition evaluation that does not throw, loop()
\* stops with 'max-iterations' exactly when at least one of the configured
\* conditions returns true for the context of that iteration; otherwise
\* the run goes on (to the verifier, or to the next abort check).
\* ---------------------------------------------------------------------
AnyConditionTrue ==
  \E i \in DOMAIN getStopConditions(settings.stopWhen) :
    conditionResult(getStopConditions(settings.stopWhen)[i],
                    stopContext(iteration, allResults, totalUsage, settings.model))

C9_StopsWhenAnyConditionHolds ==
  (LastEventIs("isRalphStopConditionMet") /\ pc # "rejected") =>
    /\ AnyConditionTrue <=>
         (pc \in {"return", "returned"} /\ completionReason = "max-iterations")
    /\ ~AnyConditionTrue =>
         (pc \in {"verify", "loop_top"} \/ completionReason = "aborted")

\* a list of two conditions of which only the second holds ends the run
C9_Witness ==
  /\ settings.stopWhen =
       StopWhenArray(<<iterationCountIs(MaxN), tokenCountIs(2 * KnownUsage.totalTokens)>>)
  /\ settings.step.usage = KnownUsage
  /\ pc = "returned" /\ returned[1].iterations = 2
  /\ returned[1].completionReason = "max-iterations"
  /\ ~conditionResult(iterationCountIs(MaxN),
                      stopContext(iteration, allResults, totalUsage, settings.model))

\* ---------------------------------------------------------------------
\* C10: costIs(maxCost) evaluated where the rates (a, b) are known -
\* explicit rates first, else the pricing of an explicit model, else the
\* pricing of the context's model - does not throw and returns true
\* exactly when inputTokens * a + outputTokens * b >= maxCost, unknown
\* token counts taken as 0 (all in units of 10^-8 USD).
\* ---------------------------------------------------------------------
C10_Tokens(t) == IF t = undefined THEN 0 ELSE t
C10_Model ==
  IF probe.cond.ratesOrModel.kind = "model"
    THEN probe.cond.ratesOrModel.model ELSE probe.context.model
C10_RatesKnown ==
  probe.cond.ratesOrModel.kind = "rates" \/ C10_Model \in DOMAIN MODEL_PRICING
C10_A ==
  IF probe.cond.ratesOrModel.kind = "rates"
    THEN probe.cond.ratesOrModel.a ELSE MODEL_PRICING[C10_Model].a
C10_B ==
  IF probe.cond.ratesOrModel.kind = "rates"
    THEN probe.cond.ratesOrModel.b ELSE MODEL_PRICING[C10_Model].b

SentIsCurrent == iteration >= 1 /\ pc # "prepare"
\* the verdicts of earlier iterations that were incomplete and gave a reason
PriorReasons ==
  SelectSeq(verdicts, LAMBDA v : v.iteration < iteration /\ ~v.complete /\ v.reason.len > 0)
\* their feedback messages, in iteration order
ExpectedFeedback ==
  [j \in DOMAIN PriorReasons |->
     FeedbackMessage(PriorReasons[j].iteration, PriorReasons[j].reason)]
SentFeedback == SelectSeq(messagesToSend, LAMBDA m : m.kind = "feedback")
\* the history as it was when the current iteration's messages were prepared
HistoryBefore == SelectSeq(currentMessages, LAMBDA m : m.iter < iteration)
PositionIn(seq, m) == CHOOSE i \in DOMAIN seq : seq[i] = m
IndexIn(seq, m) == IF \E i \in DOMAIN seq : seq[i] = m THEN PositionIn(seq, m) ELSE 0

\* ---------------------------------------------------------------------
\* C3 (as claimed): when the verifier returned {complete: false, reason: r}
\* with non-empty r at iteration i and the run went on, the message list
\* of iteration i+1 contains the user message 'Feedback: r', after every
\* response message of iteration i in it - in every configuration.
\* ---------------------------------------------------------------------
C3_FeedbackReachesNextIteration ==
  \A j \in DOMAIN verdicts :
    (/\ SentIsCurrent /\ verdicts[j].iteration = iteration - 1
     /\ ~verdicts[j].complete /\ verdicts[j].reason.len > 0) =>
      LET fb == FeedbackMessage(iteration - 1, verdicts[j].reason)
      IN /\ IndexIn(messagesToSend, fb) > 0
         /\ fb.role = "user" /\ fb.text = [lit |-> "Feedback: ", r |-> verdicts[j].reason.id]
         /\ \A i \in DOMAIN messagesToSend :
              (messagesToSend[i].kind = "response"
               /\ messagesToSend[i].iter = iteration - 1) =>
                i < IndexIn(messagesToSend, fb)

\* ---------------------------------------------------------------------
\* C4 (as claimed): when loop() returns after iteration k, the message
\* list sent on iteration k contains, in iteration order, the feedback
\* message of every earlier iteration whose verdict carried a reason.
\* ---------------------------------------------------------------------
C4_AllEarlierFeedbackPresent ==
  pc = "returned" => SentFeedback = ExpectedFeedback

\* ---------------------------------------------------------------------
\* C4 (amended): the message list of an iteration holds the feedback
\* messages of earlier iterations in iteration order; all of them when
\* the history was not compressed at that iteration, and under
\* compression exactly those among the last recentIterationsToKeep * 10
\* messages of the history.
\* ---------------------------------------------------------------------
C4_InWindow(fb) ==
  IndexIn(HistoryBefore, fb) >
    Len(HistoryBefore) - settings.contextManagement.recentIterationsToKeep * 10

C4_FeedbackWithinWindow ==
  SentIsCurrent =>
    /\ \A a, b \in DOMAIN SentFeedback :
         a < b => SentFeedback[a].iter < SentFeedback[b].iter
    /\ \A j \in DOMAIN ExpectedFeedback : IndexIn(HistoryBefore, ExpectedFeedback[j]) > 0
    /\ ~summarized => SentFeedback = ExpectedFeedback
    /\ summarized => SentFeedback = SelectSeq(ExpectedFeedback, C4_InWindow)

\* a run that returned with the history compressed, some earlier feedback
\* still in the transcript and some of it missing
C4_Witness ==
  /\ pc = "returned" /\ summarized
  /\ settings.contextManagement.recentIterationsToKeep = 1
  /\ Len(SentFeedback) >= 1
  /\ Len(SentFeedback) < Len(ExpectedFeedback)

\* ---------------------------------------------------------------------
\* C11: costIs without explicit rates raises when the model it prices has
\* no known pricing, and costIs with explicit rates never raises; in
\* loop() the error comes out of the stop check of iteration 1, after
\* exactly one step call, and loop() rejects with it instead of returning.
\* ---------------------------------------------------------------------
C11_NoPricing(cond) ==
  /\ cond.type = "costIs"
  /\ cond.ratesOrModel.kind # "rates"
  /\ (IF cond.ratesOrModel.kind = "model" THEN cond.ratesOrModel.model ELSE settings.model)
       \notin DOMAIN MODEL_PRICING

C11_Misconfigured ==
  \E i \in DOMAIN getStopConditions(settings.stopWhen) :
    C11_NoPricing(getStopConditions(settings.stopWhen)[i])

C11_UnknownModelRaises ==
  LET conds   == getStopConditions(settings.stopWhen)
      context == stopContext(iteration, allResults, totalUsage, settings.model)
      checked == Calls("isRalphStopConditionMet") >= 1
  IN /\ \A i \in DOMAIN conds :
          conditionThrows(conds[i], context) <=> C11_NoPricing(conds[i])
     /\ (C11_Misconfigured /\ checked) =>
          /\ pc = "rejected" /\ error = "Unknown model" /\ returned = <<>>
          /\ iteration = 1 /\ StepCalls = 1
          /\ LastEventIs("isRalphStopConditionMet")
     /\ (C11_Misconfigured /\ ~checked) => StepCalls <= 1 /\ error # "Unknown model"
     /\ ~C11_Misconfigured => error # "Unknown model"

\* loop() rejected at the stop check of iteration 1 for an unpriced model
C11_Witness ==
  /\ pc = "rejected" /\ error = "Unknown model"
  /\ settings.model = UnknownModel
  /\ StepCalls = 1 /\ Calls("isRalphStopConditionMet") = 1

\* ---------------------------------------------------------------------
\* C12: addLanguageModelUsage is field-wise (unknown + unknown = unknown,
\* known + unknown = the known value, known + known = the sum), and it is
\* commutative and associative on usage records with any mix of known
\* and unknown fields.
\* ---------------------------------------------------------------------
C12_FieldSum(a, b) ==
  IF a = undefined /\ b = undefined THEN undefined
  ELSE IF b = undefined THEN a
  ELSE IF a = undefined THEN b
  ELSE a + b

C12_UsageAddition ==
  usageProbe # NoUsageProbe =>
    /\ DOMAIN usageProbe.sum12 = DOMAIN createEmptyUsage
    /\ \A f \in DOMAIN createEmptyUsage :
         usageProbe.sum12[f] = C12_FieldSum(usageProbe.u1[f], usageProbe.u2[f])
    /\ usageProbe.sum12 = usageProbe.sum21
    /\ usageProbe.left = usageProbe.right

\* records that differ, with a field unknown in both, a field known in one
\* only, and a field known and positive in both
C12_Witness ==
  /\ usageProbe # NoUsageProbe
  /\ usageProbe.u1 # usageProbe.u2 /\ usageProbe.u2 # usageProbe.u3
  /\ \E f, g, h \in DOMAIN createEmptyUsage :
       /\ usageProbe.u1[f] = undefined /\ usageProbe.u2[f] = undefined
       /\ usageProbe.u1[g] = undefined /\ usageProbe.u2[g] > 0
       /\ usageProbe.u1[h] > 0 /\ usageProbe.u2[h] > 0
       /\ usageProbe.sum12[h] = usageProbe.u1[h] + usageProbe.u2[h]

\* ---------------------------------------------------------------------
\* Observations of the calls on the context manager
\* ---------------------------------------------------------------------
PathsOf(files) == {files[i].path : i \in DOMAIN files}
\* calls i and i + 1 are trackFileRead calls with the same arguments
SameReadTwice(i) ==
  /\ fileOps[i].op = "read" /\ fileOps[i + 1].op = "read"
  /\ fileOps[i + 1].path = fileOps[i].path
  /\ fileOps[i + 1].content = fileOps[i].content
  /\ fileOps[i + 1].options = fileOps[i].options
\* call j is the first trackFileRead of the path after the trackFileWrite i
NextReadAfterWrite(i, j) ==
  /\ i < j
  /\ fileOps[i].op = "write" /\ fileOps[j].op = "read"
  /\ fileOps[j].path = fileOps[i].path
  /\ \A k \in (i + 1)..(j - 1) :
       ~(fileOps[k].op = "read" /\ fileOps[k].path = fileOps[i].path)
IsSuffix(s, t) ==
  Len(s) <= Len(t) /\ s = SubSeq(t, Len(t) - Len(s) + 1, Len(t))

\* ---------------------------------------------------------------------
\* C13 (as claimed): a second trackFileRead of the same path with the same
\* arguments, with or without a line range, right after the first returns
\* the same content and leaves the file region's token total and the set
\* of cached paths as the first call left them.
\* ---------------------------------------------------------------------
C13_SecondReadChangesNothing ==
  \A i \in 1..(Len(fileOps) - 1) :
    SameReadTwice(i) =>
      /\ fileOps[i + 1].result.content = fileOps[i].result.content
      /\ FileTokens(fileOps[i + 1].after) = FileTokens(fileOps[i + 1].before)
      /\ PathsOf(fileOps[i + 1].after) = PathsOf(fileOps[i + 1].before)

\* ---------------------------------------------------------------------
\* C14: trackFileWrite(path) removes the entry of path; the next
\* trackFileRead(path, c) is a cache miss that stores and returns the
\* content derived from c, never what was cached before the write.
\* ---------------------------------------------------------------------
C14_WriteInvalidates ==
  /\ \A i \in DOMAIN fileOps :
       fileOps[i].op = "write" =>
         /\ fileOps[i].path \notin PathsOf(fileOps[i].after)
         /\ PathsOf(fileOps[i].after) = PathsOf(fileOps[i].before) \ {fileOps[i].path}
  /\ \A i, j \in DOMAIN fileOps :
       NextReadAfterWrite(i, j) =>
         LET read == fileOps[j]
             f    == finalContent(read.content, read.options, fileConfig)
             k    == IndexOfPath(read.after, read.path)
         IN /\ ~read.hit
            /\ read.result.content.id = read.content.id
            /\ read.result.content = StoredContent(f)
            /\ read.result.content.edits = 0
            /\ k # 0 /\ read.after[k].content = read.result.content

\* a file read and cached, written, then read again with other content
C14_Witness ==
  \E i, j \in DOMAIN fileOps :
    /\ NextReadAfterWrite(i, j) /\ i > 1
    /\ fileOps[i].path \in PathsOf(fileOps[i].before)
    /\ fileOps[i - 1].op = "read" /\ fileOps[i - 1].path = fileOps[i].path
    /\ fileOps[j].options.lineRange = NoRange
    /\ fileOps[j].content.id # fileOps[i - 1].result.content.id
    /\ fileOps[j].result.content.id = fileOps[j].content.id

\* ---------------------------------------------------------------------
\* C15 (as claimed): after every trackFileRead call the estimated tokens
\* of all cached file entries sum to at most fileContextBudget.
\* ---------------------------------------------------------------------
C15_FilesWithinBudget ==
  \A i \in DOMAIN fileOps :
    fileOps[i].op = "read" =>
      FileTokens(fileOps[i].after) <= fileConfig.fileContextBudget

\* ---------------------------------------------------------------------
\* C16: after every addChangeLogEntry call the change log's estimated
\* tokens (summary plus details of each entry) are at most changeLogBudget
\* and the log is a contiguous suffix of all entries ever appended, in
\* append order.
\* ---------------------------------------------------------------------
C16_ChangeLogWithinBudget ==
  /\ changeLogTokens(changeLog) <= fileConfig.changeLogBudget
  /\ IsSuffix(changeLog, appended)
  /\ (changeLogTokens(appended) <= fileConfig.changeLogBudget => changeLog = appended)
  /\ \A n \in 1..Len(appended) :
       (Len(changeLog) < n /\ n < Len(appended)) =>
         changeLogTokens(SubSeq(appended, Len(appended) - n + 1, Len(appended)))
           > fileConfig.changeLogBudget

\* three appends of which the log kept the newest only
C16_Witness ==
  /\ Len(appended) = 3 /\ Len(changeLog) = 1
  /\ changeLog[1] = appended[3]
  /\ changeLogTokens(SubSeq(appended, 1, 2)) <= fileConfig.changeLogBudget

\* ---------------------------------------------------------------------
\* C17: the iterations of a run are numbered 1..k without gap or repeat;
\* onIterationStart(i), the step call of i and onIterationEnd(i) happen
\* once each, in this order, iteration after iteration; and a run that
\* returns after k iterations reports exactly one of 'verified',
\* 'max-iterations', 'aborted' (a run that raises reports none).
\* ---------------------------------------------------------------------
C17_IterationCalls ==
  SelectSeq(events, LAMBDA e : e.call \in {"onIterationStart", "generateText", "onIterationEnd"})
C17_Callbacks ==
  SelectSeq(events, LAMBDA e : e.call \in {"onIterationStart", "onIterationEnd"})

RECURSIVE C18_Accumulated(_)
C18_Accumulated(results) ==
  IF results = <<>> THEN createEmptyUsage
  ELSE addLanguageModelUsage(C18_Accumulated(SubSeq(results, 1, Len(results) - 1)),
                             results[Len(results)].usage)

C18_ReturnsTotalUsage ==
  pc = "returned" =>
    /\ "totalUsage" \in DOMAIN returned[1]
    /\ returned[1].totalUsage = C18_Accumulated(allResults)

\* ---------------------------------------------------------------------
\* Observations of a parsed judge response
\* ---------------------------------------------------------------------
\* the response trimmed and case-folded
Folded == toUpperCase(trim(judge[1].response))
StartsWithYes == Folded # <<>> /\ Folded[1] = "YES"
StartsWithNo == Folded # <<>> /\ Folded[1] = "NO"
HasCompletionPhrase ==
  \E i \in DOMAIN Folded : Folded[i] \in {"TASK IS COMPLETE", "TASK HAS BEEN COMPLETED"}

\* ---------------------------------------------------------------------
\* C19: a judge response that, trimmed and case-folded, neither starts
\* with YES or NO nor contains a completion phrase is never classified
\* complete: isComplete is false, the reason marks the response as
\* unclear, and there is no feedback.
\* ---------------------------------------------------------------------
C19_AmbiguousIsIncomplete ==
  (judge # NoJudge /\ ~StartsWithYes /\ ~StartsWithNo /\ ~HasCompletionPhrase) =>
    /\ ~judge[1].result.isComplete
    /\ judge[1].result.reason.unclear
    /\ judge[1].result.reason.response = judge[1].response
    /\ judge[1].result.feedback = <<>>

\* an ambiguous response that is not empty: some text that mentions yes
C19_Witness ==
  /\ judge # NoJudge
  /\ Folded = <<"FIX", " ", "YES">>
  /\ ~judge[1].result.isComplete /\ judge[1].result.reason.unclear

\* ---------------------------------------------------------------------
\* C20 (as claimed): every judge response that, trimmed and ignoring case,
\* starts with NO is classified incomplete, with as feedback the trimmed
\* text that follows the leading NO marker (absent when empty), whatever
\* else the response contains.
\* ---------------------------------------------------------------------
C20_StartsWithNoIsIncomplete ==
  (judge # NoJudge /\ StartsWithNo) =>
    /\ ~judge[1].result.isComplete
    /\ judge[1].result.feedback = trim(skipSeparators(Tail(trim(judge[1].response))))

\* ---------------------------------------------------------------------
\* C21 (as claimed): with verifyCompletion configured it is invoked once
\* in every executed iteration, after the step call and before the stop
\* conditions; the stop conditions are consulted only when the verdict
\* was incomplete.
\* ---------------------------------------------------------------------
C21_VerifyBeforeStopConditions ==
  settings.verify.given =>
    \A j \in DOMAIN events :
      events[j].call = "isRalphStopConditionMet" =>
        /\ \E k \in 1..(j - 1) :
             events[k] = Event("verifyCompletion", events[j].iteration)
        /\ \E v \in DOMAIN verdicts :
             /\ verdicts[v].iteration = events[j].iteration
             /\ ~verdicts[v].complete

\* ---------------------------------------------------------------------
\* C22 (as claimed): the continuation directive is never sent on iteration
\* 1, and on an iteration i > 1 it is the last message sent exactly when
\* no feedback message of iteration i - 1 is pending.
\* ---------------------------------------------------------------------
FeedbackPending ==
  \E v \in DOMAIN verdicts :
    /\ verdicts[v].iteration = iteration - 1
    /\ ~verdicts[v].complete /\ verdicts[v].reason.len > 0
ContinuationSent ==
  /\ messagesToSend # <<>>
  /\ messagesToSend[Len(messagesToSend)] = ContinuationMessage(iteration)

C22_ContinuationOnlyWithoutFeedback ==
  SentIsCurrent =>
    /\ \A j \in DOMAIN messagesToSend :
         messagesToSend[j].kind = "continuation" => (iteration > 1 /\ j = Len(messagesToSend))
    /\ iteration > 1 => (ContinuationSent <=> ~FeedbackPending)

\* ---------------------------------------------------------------------
\* C23 (as claimed): a trackFileRead that stores an entry evicts entries of
\* other paths only while the new entry does not fit, least recently
\* accessed first: no evicted entry was accessed after one that stays, the
\* last entry evicted was still needed to make room, and afterwards the new
\* entry fits or is alone; a cache hit stamps the entry with the time of
\* the read.
\* ---------------------------------------------------------------------
\* the entries of other paths a read found cached, and those it evicted
OthersBefore(read) ==
  { read.before[k] : k \in { k \in DOMAIN read.before : read.before[k].path # read.path } }
Evicted(read) == { e \in OthersBefore(read) : e.path \notin PathsOf(read.after) }
Kept(read) == OthersBefore(read) \ Evicted(read)
RECURSIVE SetTokens(_)
SetTokens(entries) ==
  IF entries = {} THEN 0
  ELSE LET e == CHOOSE e \in entries : TRUE
       IN e.estimatedTokens + SetTokens(entries \ {e})
StoredEntry(read) == read.after[IndexOfPath(read.after, read.path)]

C23_EvictsLeastRecentUntilFits ==
  \A i \in DOMAIN fileOps :
    fileOps[i].op = "read" =>
      LET read == fileOps[i]
      IN IF read.hit
           THEN /\ i = Len(fileOps) => StoredEntry(read).lastAccessed = now
                /\ \A e \in OthersBefore(read) :
                     e.lastAccessed <= StoredEntry(read).lastAccessed
                /\ Evicted(read) = {}
           ELSE /\ \A e \in Evicted(read), r \in Kept(read) :
                     ~(r.lastAccessed < e.lastAccessed)
                /\ \A e \in Evicted(read) :
                     (\A o \in Evicted(read) : o.lastAccessed <= e.lastAccessed) =>
                       SetTokens(Kept(read)) + e.estimatedTokens
                         + StoredEntry(read).estimatedTokens > fileConfig.fileContextBudget
                /\ \/ FileTokens(read.after) <= fileConfig.fileContextBudget
                   \/ Kept(read) = {}

\* ---------------------------------------------------------------------
\* C24: prepareMessagesForIteration returns the history as it is, reports
\* summarized = false and appends no summary when iteration <=
\* recentIterationsToKeep, or summarization is disabled, or the history's
\* estimated tokens are strictly below 70% of maxContextTokens; otherwise,
\* at exactly 70% included, it reports summarized = true.
\* ---------------------------------------------------------------------
LeftAlone(call) ==
  \/ call.iteration <= call.config.recentIterationsToKeep
  \/ ~call.config.enableSummarization
  \/ SumTokens(call.history) * 10 < call.config.maxContextTokens * 7

LastMessages(call) ==
  LET len == Len(call.history)
      n   == Min(len, call.config.recentIterationsToKeep * MessagesPerIteration)
  IN [j \in 1..n |-> call.history[len - n + j]]
OneSummaryAppended(call) ==
  /\ Len(call.after) = Len(call.before) + 1
  /\ SubSeq(call.after, 1, Len(call.before)) = call.before
  /\ call.after[Len(call.after)].iteration = call.iteration - 1
HasPreviousMessages(call) ==
  call.previous # <<>> /\ call.previous[1].messages # <<>>

C26_SummarizerFailureFallsBack ==
  (/\ prepareProbe.called /\ prepareProbe.config.summarizerFails
   /\ ~LeftAlone(prepareProbe) /\ HasPreviousMessages(prepareProbe)) =>
    /\ prepareProbe.summarized
    /\ prepareProbe.messages = recentMessages(prepareProbe.config, prepareProbe.history)
    /\ OneSummaryAppended(prepareProbe)
    /\ prepareProbe.after[Len(prepareProbe.after)] =
         IterationSummary(prepareProbe.iteration - 1, TRUE)
    /\ prepareProbe.after[Len(prepareProbe.after)].summary = "fallback"

C26_Witness ==
  /\ prepareProbe.called /\ prepareProbe.config.summarizerFails
  /\ prepareProbe.summarized /\ HasPreviousMessages(prepareProbe)
  /\ prepareProbe.after # prepareProbe.before

\* ---------------------------------------------------------------------
\* C27: a step call that fails at iteration i ends the run: loop() rejects
\* with that error and returns no result; the failed call is the last call
\* loop() makes, it was made once, and iteration i has no result, no
\* onIterationEnd, no stop-condition evaluation and no verifyCompletion.
\* A run has fewer results than step calls only in that case.
\* ---------------------------------------------------------------------
C27_StepFailureIsFatal ==
  /\ Len(allResults) < StepCalls =>
       /\ StepFailed
       /\ returned = <<>>
       /\ events[Len(events)] = Event("generateText", iteration)
       /\ Cardinality({j \in DOMAIN events : events[j] = Event("generateText", iteration)}) = 1
       /\ StepCalls = iteration
       /\ Len(allResults) = iteration - 1
       /\ \A j \in DOMAIN events :
            events[j].iteration >= iteration =>
              events[j].call \notin {"onIterationEnd", "isRalphStopConditionMet",
                                     "verifyCompletion"}
       /\ \A v \in DOMAIN verdicts : verdicts[v].iteration < iteration
  /\ error = "step failed" => pc = "rejected"

\* the step call of the second iteration failed
C27_Witness ==
  /\ StepFailed /\ iteration = 2 /\ Len(allResults) = 1
  /\ settings.verify.given /\ verdicts # <<>>

\* ---------------------------------------------------------------------
\* C28: every step of loop() leaves the stored history a prefix of the new
\* one; it grows only by the response messages of the current iteration
\* (at the step call) and then by at most one feedback message of that
\* iteration (at verification); preparing the messages of an iteration,
\* compression included, leaves the stored history as it is.
\* ---------------------------------------------------------------------
AddedToHistory ==
  SubSeq(currentMessages', Len(currentMessages) + 1, Len(currentMessages'))

C28_HistoryStep ==
  /\ Len(currentMessages) <= Len(currentMessages')
  /\ SubSeq(currentMessages', 1, Len(currentMessages)) = currentMessages
  /\ AddedToHistory # <<>> =>
       \/ /\ pc = "generate"
          /\ AddedToHistory = allResults'[iteration].messages
          /\ \A j \in DOMAIN currentMessages : currentMessages[j].iter < iteration
       \/ /\ pc = "verify"
          /\ AddedToHistory =
               <<FeedbackMessage(iteration, verdicts'[Len(verdicts')].reason)>>
          /\ currentMessages[Len(currentMessages)].kind = "response"
          /\ currentMessages[Len(currentMessages)].iter = iteration
  /\ pc = "prepare" => currentMessages' = currentMessages

C28_HistoryIsAdditive == [][C28_HistoryStep]_vars

\* an iteration whose view was compressed: feedback kept in the history is
\* not among the messages sent
C28_Witness ==
  /\ pc = "generate" /\ summarized
  /\ \E j \in DOMAIN currentMessages :
       /\ currentMessages[j].kind = "feedback"
       /\ IndexIn(messagesToSend, currentMessages[j]) = 0

\* ---------------------------------------------------------------------
\* C29 (as claimed): on every iteration with context management and a
\* non-empty injection, the system message sent is the instruction text
\* followed by exactly one injection block, built from the current
\* summaries and change log - or that block alone as a new leading system
\* message when there are no instructions; the configured instruction
\* message itself stays as configured.
\* ---------------------------------------------------------------------
CurrentInjection == buildContextInjection(iterationSummaries, changeLog)
InjectionSent ==
  /\ pc = "generate" /\ settings.contextManagement.given /\ ~CurrentInjection.empty

C29_OneInjectionBlock ==
  /\ InjectionSent =>
       /\ messagesToSend[1].role = "system"
       /\ messagesToSend[1].injections = <<CurrentInjection>>
       /\ messagesToSend[1].kind =
            (IF settings.instructions THEN "instructions" ELSE "injection")
       /\ \A j \in 2..Len(messagesToSend) : messagesToSend[j].role # "system"
  /\ systemMessages = buildSystemMessages(settings.instructions)

\* ---------------------------------------------------------------------
\* C30: during a run of loop() the change log is in non-decreasing
\* iteration order, and every entry appended during iteration i - by a
\* tool's tracked write or by the verification feedback - carries
\* iteration i.
\* ---------------------------------------------------------------------
ChangeLogOrdered ==
  \A j, k \in DOMAIN changeLog :
    j < k => changeLog[j].iteration <= changeLog[k].iteration

C30_AppendStep ==
  changeLog' # changeLog =>
    /\ changeLog' # <<>> => changeLog'[Len(changeLog')].iteration = iteration
    /\ pc \in {"generate", "verify"}
    /\ \/ IsSuffix(changeLog', Append(changeLog, ToolWriteEntry(iteration)))
       \/ \E v \in DOMAIN verdicts' :
            IsSuffix(changeLog',
                     Append(changeLog, FeedbackEntry(iteration, verdicts'[v].reason)))

C30_ChangeLogInIterationOrder ==
  /\ [](ChangeLogOrdered /\ \A j \in DOMAIN changeLog : changeLog[j].iteration \in 1..iteration)
  /\ [][C30_AppendStep]_vars

\* a log holding a tool's write and the feedback of one iteration and a
\* write of the next
C30_Witness ==
  /\ Len(changeLog) >= 3
  /\ \E j \in DOMAIN changeLog :
       /\ j + 2 \in DOMAIN changeLog
       /\ changeLog[j].type = "action" /\ changeLog[j + 1].type = "observation"
       /\ changeLog[j + 1].iteration = changeLog[j].iteration
       /\ changeLog[j + 2].type = "action"
       /\ changeLog[j + 2].iteration = changeLog[j].iteration + 1

\* ---------------------------------------------------------------------
\* C31: trackFileEdit of a path that is not cached leaves the file cache as
\* it was and appends one action entry to the change log; on a cached path
\* it replaces the text in that entry, recomputes the entry's estimated
\* tokens, keeps the entry's place, and leaves every other entry as it was.
\* ---------------------------------------------------------------------
EditedLength(before, edit) == before + (edit.newLen - edit.oldLen)

C31_EditTouchesOnlyItsEntry ==
  \A i \in DOMAIN fileOps :
    fileOps[i].op = "edit" =>
      LET op == fileOps[i]
          k  == IndexOfPath(op.before, op.path)
      IN /\ k = 0 => op.after = op.before
         /\ k # 0 =>
              /\ Len(op.after) = Len(op.before)
              /\ \A j \in DOMAIN op.before : j # k => op.after[j] = op.before[j]
              /\ op.after[k].path = op.path
              /\ op.after[k].lineRange = op.before[k].lineRange
              /\ op.after[k].content.id = op.before[k].content.id
              /\ op.after[k].content.edits = op.before[k].content.edits + 1
              /\ \E edit \in EditChoices :
                   op.after[k].content.len = EditedLength(op.before[k].content.len, edit)
              /\ op.after[k].estimatedTokens = estimateTokens(op.after[k].content.len)
         /\ i = Len(fileOps) =>
              /\ trackedFiles = op.after
              /\ appended # <<>>
              /\ appended[Len(appended)].type = "action"
              /\ \E edit \in EditChoices : appended[Len(appended)] = EditEntry(edit)

\* an edit of an uncached path next to a cached one, then an edit of the
\* cached path
C31_Witness ==
  \E i, j \in DOMAIN fileOps :
    /\ fileOps[i].op = "edit" /\ fileOps[i].before # <<>>
    /\ IndexOfPath(fileOps[i].before, fileOps[i].path) = 0
    /\ fileOps[j].op = "edit"
    /\ IndexOfPath(fileOps[j].before, fileOps[j].path) # 0
    /\ fileOps[j].after # fileOps[j].before

\* ---------------------------------------------------------------------
\* C32 (as claimed): a trackFileRead with a line range {start, end}, for a
\* file of any size, returns and caches exactly the lines start..end
\* clamped to the file, each prefixed with its line number, and reports the
\* clamped range.
\* ---------------------------------------------------------------------
ClampedRange(lineRange, c) ==
  [start |-> Max(1, lineRange.start), end |-> Min(lineRange.end, c.lines)]
RangeLines(lineRange, c) ==
  Max(0, ClampedRange(lineRange, c).end - ClampedRange(lineRange, c).start + 1)

C32_LineRangeExtracted ==
  \A i \in DOMAIN fileOps :
    (fileOps[i].op = "read" /\ fileOps[i].options.lineRange # NoRange) =>
      LET read == fileOps[i]
          k    == IndexOfPath(read.after, read.path)
      IN /\ read.result.content.view = "range"
         /\ read.result.content.len =
              NumberedLength(RangeLines(read.options.lineRange, read.content),
                             read.content.lineLen)
         /\ read.result.lineRange = ClampedRange(read.options.lineRange, read.content)
         /\ k # 0 /\ read.after[k].content = read.result.content

\* ---------------------------------------------------------------------
\* C33: in a run of loop() at most one call of a collaborator is in flight
\* at any time, and it belongs to the current iteration; when the message
\* preparation of iteration i+1 starts, the step call, onIterationEnd, the
\* stop-condition evaluation and verifyCompletion (if configured) of
\* iteration i have all started and completed.
\* ---------------------------------------------------------------------
Logged(site, iter, phase) ==
  \E j \in DOMAIN awaitProbe.log : awaitProbe.log[j] = Phase(site, iter, phase)
CompletedBefore(site, iter, k) ==
  \E a, b \in 1..(k - 1) :
    /\ a < b
    /\ awaitProbe.log[a] = Phase(site, iter, "call")
    /\ awaitProbe.log[b] = Phase(site, iter, "return")
IterationSites(config) ==
  {"generateText", "onIterationEnd", "isRalphStopConditionMet"}
    \cup (IF config.verifyCompletion THEN {"verifyCompletion"} ELSE {})
PreparationStart(config) ==
  IF config.contextManagement THEN "prepareMessagesForIteration" ELSE "generateText"

C33_OneCallInFlight ==
  /\ Cardinality(awaitProbe.inflight) <= 1
  /\ \A c \in awaitProbe.inflight : c.iteration = awaitProbe.iteration
  /\ \A k \in DOMAIN awaitProbe.log :
       LET e == awaitProbe.log[k]
       IN (/\ e.phase = "call" /\ e.iteration > 1
           /\ e.call \in {"onIterationStart", PreparationStart(awaitProbe.config)}) =>
            \A site \in IterationSites(awaitProbe.config) :
              CompletedBefore(site, e.iteration - 1, k)
  /\ awaitProbe.at = "returned" => awaitProbe.inflight = {}

\* the third iteration's preparation is in flight
C33_Witness ==
  /\ awaitProbe.config.contextManagement /\ awaitProbe.config.verifyCompletion
  /\ awaitProbe.iteration = 3
  /\ awaitProbe.inflight = {[call |-> "prepareMessagesForIteration", iteration |-> 3]}

\* ---------------------------------------------------------------------
\* C34 (as claimed): loop() calls on one agent that overlap in time do not
\* share context state: while a call is under way the change log holds
\* every entry that call recorded, the entries a call injects are its own,
\* and the current-iteration counter is the call's own iteration once it
\* has prepared it.
\* ---------------------------------------------------------------------
EntriesOf(log) == {log[j] : j \in DOMAIN log}
OwnEntry(e, r) == e.r = r

C34_RunsDoNotShareContext ==
  \A r \in RunIds :
    Active(r) =>
      /\ EntriesOf(runs[r].recorded) \subseteq EntriesOf(changeLog)
      /\ \A e \in EntriesOf(runs[r].injection.changeLog) : OwnEntry(e, r)
      /\ runs[r].pc \in {"generate", "verify"} => currentIteration = runs[r].iteration

StreamedWithContinuation ==
  /\ messagesToSend # <<>>
  /\ messagesToSend[Len(messagesToSend)].kind = "continuation"

C35_StreamIssuesNCalls ==
  \A n \in 1..MaxN :
    (OnlyIterationCount(n) /\ NeverComplete /\ ~aborted /\ pc = "streamed") =>
      /\ Calls("generateText") = n - 1
      /\ Calls("streamText") = 1
      /\ Calls("generateText") + Calls("streamText") = n
      /\ StreamedWithContinuation => Calls("generateText") >= 1

\* ---------------------------------------------------------------------
\* C36 (as claimed): when no stop condition is configured, stopWhen absent
\* or an empty list, the default bound of 10 iterations applies: with a
\* verifier that never reports complete and no abort, loop() makes no
\* more than 10 step calls and never starts an 11th iteration.
\* ---------------------------------------------------------------------
NoStopConditionConfigured ==
  settings.stopWhen = StopWhenAbsent \/ settings.stopWhen = StopWhenArray(<<>>)

C36_DefaultBoundWithoutConditions ==
  (NoStopConditionConfigured /\ NeverComplete /\ ~aborted) =>
    /\ iteration <= DefaultIterations
    /\ StepCalls <= DefaultIterations

\* ---------------------------------------------------------------------
\* C37: within one run of loop() each iteration is summarized at most
\* once: the iteration indices of the stored summaries are strictly
\* increasing (so pairwise distinct), and every step of the run leaves
\* the summaries stored so far in place and unchanged, adding at most one.
\* ---------------------------------------------------------------------
SummariesIncrease ==
  \A i, j \in DOMAIN iterationSummaries :
    i < j => iterationSummaries[i].iteration < iterationSummaries[j].iteration

SummariesKept ==
  /\ Len(iterationSummaries') \in {Len(iterationSummaries), Len(iterationSummaries) + 1}
  /\ \A i \in DOMAIN iterationSummaries : iterationSummaries'[i] = iterationSummaries[i]

C37_EachIterationSummarizedOnce ==
  /\ [](SummariesIncrease)
  /\ [][SummariesKept]_vars

C37_Witness ==
  /\ Len(iterationSummaries) >= 2
  /\ pc = "returned"

\* ---------------------------------------------------------------------
\* C38: whenever loop() returns (it returns only after at least one
\* iteration), iterations equals the length of allResults and the number
\* of step calls made, result is the last element of allResults, the
\* result of the last iteration, and text is that element's text,
\* whichever of the three completion reasons the run ends with.
\* ---------------------------------------------------------------------
C38_ReturnedCountsAgree ==
  pc = "returned" =>
    LET r == returned[1]
    IN /\ r.completionReason \in {"verified", "max-iterations", "aborted"}
       /\ r.iterations >= 1
       /\ r.iterations = Len(r.allResults)
       /\ r.iterations = StepCalls
       /\ r.allResults = allResults
       /\ r.result = r.allResults[Len(r.allResults)]
       /\ r.result.iteration = r.iterations
       /\ r.text = r.result.text

C38_Witness ==
  /\ pc = "returned"
  /\ returned[1].completionReason = "aborted"
  /\ returned[1].iterations >= 2

C38_ReturnsVerified ==
  pc = "returned" /\ returned[1].completionReason = "verified" /\ returned[1].iterations >= 2

C38_ReturnsMaxIterations ==
  pc = "returned" /\ returned[1].completionReason = "max-iterations"
    /\ returned[1].iterations >= 2

\* ---------------------------------------------------------------------
\* C39: compression is monotone within a run: the stored history only
\* grows and its token estimate never decreases, so once
\* prepareMessagesForIteration has compressed at an iteration of the run
\* it compresses at every later iteration of that run.
\* ---------------------------------------------------------------------
HistoryGrows ==
  /\ Len(currentMessages') >= Len(currentMessages)
  /\ SubSeq(currentMessages', 1, Len(currentMessages)) = currentMessages
  /\ SumTokens(currentMessages') >= SumTokens(currentMessages)

C39_CompressionStep ==
  /\ HistoryGrows
  /\ summarized => summarized'
  /\ (pc = "prepare" /\ pc' = "generate") =>
       summarized' = (/\ settings.contextManagement.given
                      /\ shouldCompress(settings.contextManagement, currentMessages,
                                        iteration))

C39_CompressionIsMonotone == [][C39_CompressionStep]_vars

C39_Witness ==
  /\ summarized
  /\ pc = "generate"
  /\ \E i \in 1..(iteration - 1) :
       \E e \in DOMAIN events : events[e] = Event("summarize", i)

============================================================================
